---- MODULE Spec2Model ----
(***************************************************************************)
(* Retrieval pipeline of the AI-Knowledge-Hub repository: hit preparation  *)
(* (rag/retrieval/utils.py), the LangChain retriever                        *)
(* (rag/langchain_adapters.py), the query_faiss CLI, the QA orchestrator    *)
(* (app/services/qa.py) and the FAISS store adapter's lazy metadata cache   *)
(* (app/adapters/vector_faiss.py).                                          *)
(*                                                                         *)
(* Strings are sequences of one-character strings.  A chunk id            *)
(* "<base>_chunk<tail>" is the record [base, marker, tail]; an id without  *)
(* the "_chunk" marker has marker = FALSE and an empty tail.  Python's     *)
(* None / missing key / "" (all falsy) of a string field is the empty      *)
(* value of that field.                                                    *)
(***************************************************************************)
EXTENDS Integers, Sequences, FiniteSets, TLC

VARIABLES
    pc,              \* position of the operation under way
    hits,            \* raw hits handed to prepare_hits / returned by the store
    settings,        \* RetrievalSettings of the call
    limit,           \* prepare_hits' limit (ask's k)
    lookup,          \* prepare_hits' local metadata lookup
    idx,             \* position of the loop over the raw hits
    per_doc_counts,  \* running count per doc_id
    processed,       \* hits appended to the output so far
    kept,            \* history: positions (in hits) of the appended hits
    store,           \* the metadata source handed to prepare_hits
    results,         \* query_faiss CLI: diversified results
    args,            \* arguments of a pure function under check
    fout,            \* verdicts / results of the pure functions applied
    ask,             \* QAPipeline.ask: request, collaborator calls, response
    meta,            \* FaissStoreAdapter._meta (the shared cache)
    thr              \* FaissStoreAdapter callers: one record per thread

vars == <<pc, hits, settings, limit, lookup, idx, per_doc_counts, processed,
          kept, store, results, args, fout, ask, meta, thr>>

----------------------------------------------------------------------------
(* Bounds of the model *)

MaxHits == 3

MaxPerDoc == 2

MaxNeighbors == 2

MaxChars == 4

----------------------------------------------------------------------------
(* Text: str.lower, substring test, replace("\n", " "), strip, slicing, join *)

Whitespace == {" ", "\n"}

LowerChar(c) == IF c = "A" THEN "a" ELSE IF c = "B" THEN "b" ELSE c

Lower(s) == [i \in 1..Len(s) |-> LowerChar(s[i])]

\* kw in s
Contains(s, kw) ==
    \E i \in 0..(Len(s) - Len(kw)) : \A j \in 1..Len(kw) : s[i + j] = kw[j]

ReplaceNewlines(s) == [i \in 1..Len(s) |-> IF s[i] = "\n" THEN " " ELSE s[i]]

\* s.strip()
Strip(s) ==
    LET keep == {i \in 1..Len(s) : s[i] \notin Whitespace}
    IN IF keep = {} THEN <<>>
       ELSE LET lo == CHOOSE i \in keep : \A j \in keep : i <= j
                hi == CHOOSE i \in keep : \A j \in keep : j <= i
            IN SubSeq(s, lo, hi)

\* s[:n] for n >= 0
Take(s, n) == SubSeq(s, 1, IF n < Len(s) THEN n ELSE Len(s))

RECURSIVE Join(_, _)
\* sep.join(parts)
Join(parts, sep) ==
    IF parts = <<>> THEN <<>>
    ELSE IF Len(parts) = 1 THEN parts[1]
    ELSE parts[1] \o sep \o Join(Tail(parts), sep)

----------------------------------------------------------------------------
(* Chunk ids and neighbor_ids *)

Digits == <<"0", "1", "2", "3", "4", "5", "6", "7", "8", "9">>

DigitVal(c) == (CHOOSE i \in 1..10 : Digits[i] = c) - 1

IsDigit(c) == \E i \in 1..10 : Digits[i] = c

RECURSIVE NatOf(_)
NatOf(ds) == IF ds = <<>> THEN 0
             ELSE 10 * NatOf(SubSeq(ds, 1, Len(ds) - 1)) + DigitVal(ds[Len(ds)])

\* the digits of an integer literal, its single underscores between digits left out
Ungroup(body) == SelectSeq(body, LAMBDA c : c # "_")

\* int(s) succeeds: blanks around, an optional sign, at least one digit, and
\* underscores only singly between digits
IsInt(s) ==
    LET t == Strip(s)
        body == IF t # <<>> /\ t[1] \in {"-", "+"} THEN Tail(t) ELSE t
    IN /\ body # <<>>
       /\ \A i \in 1..Len(body) : IsDigit(body[i]) \/ body[i] = "_"
       /\ IsDigit(body[1]) /\ IsDigit(body[Len(body)])
       /\ \A i \in 1..(Len(body) - 1) : ~(body[i] = "_" /\ body[i + 1] = "_")

ParseInt(s) ==
    LET t == Strip(s)
    IN IF t[1] = "-" THEN 0 - NatOf(Ungroup(Tail(t)))
       ELSE IF t[1] = "+" THEN NatOf(Ungroup(Tail(t)))
       ELSE NatOf(Ungroup(t))

RECURSIVE DigitsOf(_)
DigitsOf(n) == IF n < 10 THEN <<Digits[n + 1]>>
               ELSE DigitsOf(n \div 10) \o <<Digits[(n % 10) + 1]>>

RECURSIVE ZeroPad(_, _)
ZeroPad(ds, w) == IF Len(ds) >= w THEN ds ELSE ZeroPad(<<"0">> \o ds, w)

\* f"{j:04d}": sign-aware zero padding to width 4
Fmt04(j) == IF j < 0 THEN <<"-">> \o ZeroPad(DigitsOf(0 - j), 3)
            ELSE ZeroPad(DigitsOf(j), 4)

NoId == [base |-> "", marker |-> FALSE, tail |-> <<>>]

ChunkId(d, n) == [base |-> d, marker |-> TRUE, tail |-> Fmt04(n)]

\* chunk_id.split("_chunk")[0]
DocPrefix(cid) == cid.base

neighbor_ids_short(chunk_id, neighbors) ==
    IF neighbors <= 0 THEN <<chunk_id>>
    ELSE IF ~IsInt(chunk_id.tail) THEN <<chunk_id>>
    ELSE LET n == ParseInt(chunk_id.tail)
         IN [k \in 1..(2 * neighbors) |->
                [base |-> chunk_id.base, marker |-> TRUE,
                 tail |-> Fmt04(n - neighbors + k - 1)]]

neighbor_ids(chunk_id, neighbors) ==
    IF neighbors <= 0 THEN <<chunk_id>>
    ELSE IF ~IsInt(chunk_id.tail) THEN <<chunk_id>>
    ELSE LET n == ParseInt(chunk_id.tail)
         IN [k \in 1..(2 * neighbors + 1) |->
                [base |-> chunk_id.base, marker |-> TRUE,
                 tail |-> Fmt04(n - neighbors + k - 1)]]

----------------------------------------------------------------------------
(* Chunk records, years, scores *)

NoYear == [k |-> "none", v |-> 0, s |-> <<>>]

IntYear(n) == [k |-> "int", v |-> n, s |-> <<>>]

StrYear(str) == [k |-> "str", v |-> 0, s |-> str]

\* a finite float, given by its integer part (towards zero)
FloatYear(n) == [k |-> "float", v |-> n, s |-> <<>>]

\* float("nan"), float("inf"), and a value of a type int() does not take
NanYear == [k |-> "nan", v |-> 0, s |-> <<>>]

InfYear == [k |-> "inf", v |-> 0, s |-> <<>>]

ListYear == [k |-> "list", v |-> 0, s |-> <<>>]

\* int(year) under try/except (TypeError, ValueError): ValueError on a string
\* that is no number and on nan, TypeError on another type
ToInt(year) ==
    IF year.k \in {"int", "float"} THEN [ok |-> TRUE, v |-> year.v]
    ELSE IF year.k = "str" /\ IsInt(year.s) THEN [ok |-> TRUE, v |-> ParseInt(year.s)]
    ELSE [ok |-> FALSE, v |-> 0]

\* int(value) raises OverflowError, which the handlers do not name
IntOverflows(value) == value.k = "inf"

NoScore == [k |-> "none", v |-> 0]

NumScore(n) == [k |-> "num", v |-> n]

\* an optional integer (None or a value)
NoBound == [some |-> FALSE, v |-> 0]

Bound(n) == [some |-> TRUE, v |-> n]

EmptyRec == [id |-> NoId, doc_id |-> "", text |-> <<>>, preview |-> <<>>,
             year |-> NoYear, url |-> <<>>, score |-> NoScore,
             chunk_index |-> NoBound]

MkRec(cid, doc, text, year) ==
    [EmptyRec EXCEPT !.id = cid, !.doc_id = doc, !.text = text, !.year = year]

\* dict.get(key) on a mapping keyed by chunk id: the record, or EmptyRec for None
Get(map, cid) == IF cid \in DOMAIN map THEN map[cid] ELSE EmptyRec

\* rec.get("doc_id") or nid.split("_chunk")[0]
DocOf(rec, cid) == IF rec.doc_id # "" THEN rec.doc_id ELSE DocPrefix(cid)

----------------------------------------------------------------------------
(* passes_filters (rag/retrieval/utils.py) *)

passes_filters_strict(rec, contains_any, year_min, year_max) ==
    LET text == Lower(IF rec.text # <<>> THEN rec.text ELSE rec.preview)
        y == ToInt(rec.year)
    IN IF contains_any # <<>>
          /\ ~\E i \in 1..Len(contains_any) : Contains(text, contains_any[i])
       THEN FALSE
       ELSE IF year_min.some /\ y.ok /\ y.v <= year_min.v THEN FALSE
       ELSE IF year_max.some /\ y.ok /\ y.v >= year_max.v THEN FALSE
       ELSE TRUE

passes_filters(rec, contains_any, year_min, year_max) ==
    LET text == Lower(IF rec.text # <<>> THEN rec.text ELSE rec.preview)
        y == ToInt(rec.year)
    IN IF contains_any # <<>>
          /\ ~\E i \in 1..Len(contains_any) : Contains(text, contains_any[i])
       THEN FALSE
       ELSE IF year_min.some /\ y.ok /\ y.v < year_min.v THEN FALSE
       ELSE IF year_max.some /\ y.ok /\ y.v > year_max.v THEN FALSE
       ELSE TRUE

----------------------------------------------------------------------------
(* stitch_preview (rag/retrieval/utils.py) *)

RECURSIVE StitchLoopNoGuard(_, _, _, _, _, _, _, _)
StitchLoopNoGuard(nids, k, doc_id, lkp, max_chars, no_truncate, parts, total_len) ==
    IF k > Len(nids) THEN parts
    ELSE
      LET nid == nids[k]
          rec == Get(lkp, nid)
          txt == Strip(ReplaceNewlines(rec.text))
          room == max_chars - total_len
          skip == StitchLoopNoGuard(nids, k + 1, doc_id, lkp, max_chars,
                                    no_truncate, parts, total_len)
      IN IF rec = EmptyRec THEN skip
         ELSE IF txt = <<>> THEN skip
         ELSE IF no_truncate
              THEN StitchLoopNoGuard(nids, k + 1, doc_id, lkp, max_chars,
                                     no_truncate, Append(parts, txt), total_len)
         ELSE IF room <= 0 THEN parts
         ELSE IF Len(txt) <= room
              THEN StitchLoopNoGuard(nids, k + 1, doc_id, lkp, max_chars,
                                     no_truncate, Append(parts, txt),
                                     total_len + Len(txt))
         ELSE Append(parts, Take(txt, room))

RECURSIVE StitchLoop(_, _, _, _, _, _, _, _)
\* the for loop over neighbor_ids: parts collected until the budget is spent
StitchLoop(nids, k, doc_id, lkp, max_chars, no_truncate, parts, total_len) ==
    IF k > Len(nids) THEN parts
    ELSE
      LET nid == nids[k]
          rec == Get(lkp, nid)
          txt == Strip(ReplaceNewlines(rec.text))
          room == max_chars - total_len
          skip == StitchLoop(nids, k + 1, doc_id, lkp, max_chars, no_truncate,
                             parts, total_len)
      IN IF rec = EmptyRec THEN skip
         ELSE IF DocOf(rec, nid) # doc_id THEN skip
         ELSE IF txt = <<>> THEN skip
         ELSE IF no_truncate
              THEN StitchLoop(nids, k + 1, doc_id, lkp, max_chars, no_truncate,
                              Append(parts, txt), total_len)
         ELSE IF room <= 0 THEN parts
         ELSE IF Len(txt) <= room
              THEN StitchLoop(nids, k + 1, doc_id, lkp, max_chars, no_truncate,
                              Append(parts, txt), total_len + Len(txt))
         ELSE Append(parts, Take(txt, room))

StitchParts(nids, doc_id, lkp, max_chars, no_truncate) ==
    StitchLoop(nids, 1, doc_id, lkp, max_chars, no_truncate, <<>>, 0)

stitch_preview_uncut(center_rec, lkp, neighbors, max_chars, no_truncate) ==
    IF center_rec.id = NoId THEN Take(center_rec.text, max_chars)
    ELSE
      LET chunk_id == center_rec.id
          doc_id == DocOf(center_rec, chunk_id)
          parts == StitchParts(neighbor_ids(chunk_id, neighbors), doc_id, lkp,
                               max_chars, no_truncate)
      IN IF parts = <<>> THEN Take(ReplaceNewlines(center_rec.text), max_chars)
         ELSE Join(parts, <<" ">>)

stitch_preview(center_rec, lkp, neighbors, max_chars, no_truncate) ==
    IF center_rec.id = NoId THEN Take(center_rec.text, max_chars)
    ELSE
      LET chunk_id == center_rec.id
          doc_id == DocOf(center_rec, chunk_id)
          parts == StitchParts(neighbor_ids(chunk_id, neighbors), doc_id, lkp,
                               max_chars, no_truncate)
          joined == Join(parts, <<" ">>)
      IN IF parts = <<>> THEN Take(ReplaceNewlines(center_rec.text), max_chars)
         ELSE IF no_truncate THEN joined
         ELSE Take(joined, max_chars)

----------------------------------------------------------------------------
(* enrich_metadata (rag/retrieval/pdf_links.py): the served PDF url of a    *)
(* document whose file is known                                            *)

PdfDocs == {"d1"}

enrich_metadata(m) ==
    IF m.doc_id = "" THEN m
    ELSE IF m.doc_id \in PdfDocs
         THEN [m EXCEPT !.url = <<"/pdf/by-id/", m.doc_id>>]
    ELSE m

----------------------------------------------------------------------------
(* resolve_retrieval_settings (rag/retrieval/utils.py)                     *)
(* A raw payload value is None, an integer or a string: NoYear, IntYear,   *)
(* StrYear.  The raw "contains" is None, a string or a list of strings.    *)

DefaultNeighbors == 1

DefaultPerDoc == 2

DefaultPreviewChars == 1800

MinPreviewChars == 100

DefaultSnippetChars == 500

MinSnippetChars == 120

\* _to_int(value, default=, minimum=)
to_int(value, default, minimum) ==
    IF value.k = "none" \/ (value.k = "str" /\ value.s = <<>>) THEN default
    ELSE IF ToInt(value).ok
         THEN IF minimum.some /\ ToInt(value).v < minimum.v THEN minimum
              ELSE Bound(ToInt(value).v)
    ELSE default

RECURSIVE SplitComma(_)
\* raw_contains.split(",")
SplitComma(str) ==
    IF \A i \in 1..Len(str) : str[i] # ","
    THEN <<str>>
    ELSE LET c == CHOOSE i \in 1..Len(str) :
                     str[i] = "," /\ \A j \in 1..(i - 1) : str[j] # ","
         IN <<SubSeq(str, 1, c - 1)>> \o SplitComma(SubSeq(str, c + 1, Len(str)))

RECURSIVE CleanKeywords(_)
\* [s.strip().lower() for s in ... if s.strip()]
CleanKeywords(items) ==
    IF items = <<>> THEN <<>>
    ELSE IF Strip(Head(items)) = <<>> THEN CleanKeywords(Tail(items))
    ELSE <<Lower(Strip(Head(items)))>> \o CleanKeywords(Tail(items))

DedupeReversed(items, seen) ==
    IF items = <<>> THEN <<>>
    ELSE LET r == [i \in 1..Len(items) |-> items[Len(items) + 1 - i]]
         IN [i \in 1..Cardinality({r[j] : j \in 1..Len(r)}) |->
                LET firsts == {j \in 1..Len(r) : \A h \in 1..(j - 1) : r[h] # r[j]}
                    nth == CHOOSE j \in firsts :
                              Cardinality({h \in firsts : h < j}) = i - 1
                IN r[nth]]

RECURSIVE Dedupe(_, _)
\* lines 165-171: first occurrences, in order
Dedupe(items, seen) ==
    IF items = <<>> THEN <<>>
    ELSE IF Head(items) \in seen THEN Dedupe(Tail(items), seen)
    ELSE <<Head(items)>> \o Dedupe(Tail(items), seen \cup {Head(items)})

NoContains == [k |-> "none", s |-> <<>>, items |-> <<>>]

StrContains(str) == [k |-> "str", s |-> str, items |-> <<>>]

ListContains(items) == [k |-> "list", s |-> <<>>, items |-> items]

\* filters = filters or {}
NoFilters ==
    [contains |-> NoContains, year_min |-> NoYear, year_max |-> NoYear,
     neighbors |-> NoYear, per_doc |-> NoYear, max_preview_chars |-> NoYear,
     max_snippet_chars |-> NoYear]

OtherContains == [k |-> "other", s |-> <<>>, items |-> <<>>]

\* lines 173-178: a call of _to_int lets an OverflowError through
resolve_raises(filters) ==
    \E f \in {"year_min", "year_max", "neighbors", "per_doc", "max_preview_chars",
              "max_snippet_chars"} : IntOverflows(filters[f])

resolve_retrieval_settings(filters) ==
    LET raw == filters.contains
        contains == IF raw.k = "str" THEN CleanKeywords(SplitComma(raw.s))
                    ELSE IF raw.k = "list" THEN CleanKeywords(raw.items)
                    ELSE <<>>
    IN [contains |-> Dedupe(contains, {}),
        year_min |-> to_int(filters.year_min, NoBound, NoBound),
        year_max |-> to_int(filters.year_max, NoBound, NoBound),
        neighbors |-> to_int(filters.neighbors, Bound(DefaultNeighbors), Bound(0)).v,
        per_doc |-> to_int(filters.per_doc, Bound(DefaultPerDoc), Bound(1)).v,
        max_preview_chars |->
            to_int(filters.max_preview_chars, Bound(DefaultPreviewChars),
                   Bound(MinPreviewChars)).v,
        max_snippet_chars |->
            to_int(filters.max_snippet_chars, Bound(DefaultSnippetChars),
                   Bound(MinSnippetChars)).v]

----------------------------------------------------------------------------
(* prepare_hits (rag/retrieval/utils.py)                                   *)
(* A store is [map, bulk, point]: the chunk records by id, whether         *)
(* get_meta_map is there and answers, whether get_metadata is and does.    *)

NoLimit == NoBound

EmptyMap == [c \in {} |-> EmptyRec]

\* md.get("id") or hit.get("id")
HitChunkId(hit) == IF hit.metadata.id # NoId THEN hit.metadata.id ELSE hit.id

\* lines 202-207: the bulk metadata map, {} when absent or failing
InitialLookup(st) == IF st.bulk THEN st.map ELSE EmptyMap

\* lines 218-224: the point lookup of an id the lookup misses
PointLookup(lkp, st, chunk_id) ==
    IF chunk_id \notin DOMAIN lkp /\ st.point /\ Get(st.map, chunk_id) # EmptyRec
    THEN (chunk_id :> st.map[chunk_id]) @@ lkp
    ELSE lkp

\* lines 226-241: metadata of the hit, doc_id and year normalised, enriched
ResolveMeta(lkp, hit) ==
    LET chunk_id == HitChunkId(hit)
        base_meta == IF chunk_id \in DOMAIN lkp THEN lkp[chunk_id] ELSE hit.metadata
        y == base_meta.year
    IN enrich_metadata(
         [base_meta EXCEPT
            !.id = chunk_id,
            !.doc_id = DocOf(base_meta, chunk_id),
            !.year = IF y.k = "str" /\ IsInt(y.s) THEN IntYear(ParseInt(y.s)) ELSE y])

\* per_doc_counts[doc_id] of a defaultdict(int)
Count(counts, d) == IF d \in DOMAIN counts THEN counts[d] ELSE 0

\* float(score) if score is not None else 0.0
FloatScore(score) == IF score.k = "none" THEN 0 ELSE score.v

\* a raw score float() refuses: a non-numeric string (ValueError), a list or a
\* dict (TypeError)
BadScore == [k |-> "bad", v |-> 0]

\* line 260: float(score) is called outside any try block
FloatRaises(score) == score.k = "bad"

CapReachedOff(counts, doc_id, per_doc) ==
    per_doc > 0 /\ Count(counts, doc_id) > per_doc

\* line 246
CapReached(counts, doc_id, per_doc) ==
    per_doc > 0 /\ Count(counts, doc_id) >= per_doc

EmitFront(out, h) == <<h>> \o out

\* line 263: processed.append(...)
Emit(out, h) == Append(out, h)

\* lines 249-263: the prepared hit
PreparedHit(lkp, m, hit, stg) ==
    LET preview_lookup == IF DOMAIN lkp # {} THEN lkp ELSE (m.id :> m)
        preview == stitch_preview(m, preview_lookup, stg.neighbors,
                                  stg.max_preview_chars, FALSE)
        score_float == FloatScore(hit.score)
    IN [id |-> m.id, score |-> score_float,
        metadata |-> [m EXCEPT !.preview = preview,
                               !.text = IF m.text = <<>> THEN preview ELSE m.text,
                               !.score = NumScore(score_float)]]

\* lines 212-267: one pass of the loop body over the hit at position pos
LoopBody(st, hit, pos, sto, stg, lim) ==
    LET chunk_id == HitChunkId(hit)
        lkp == PointLookup(st.lookup, sto, chunk_id)
        m == ResolveMeta(lkp, hit)
        doc_id == m.doc_id
        counted == IF stg.per_doc > 0
                   THEN (doc_id :> Count(st.counts, doc_id)) @@ st.counts
                   ELSE st.counts
        out == Emit(st.processed, PreparedHit(lkp, m, hit, stg))
    IN IF chunk_id = NoId THEN st
       ELSE IF ~passes_filters(m, stg.contains, stg.year_min, stg.year_max)
            THEN [st EXCEPT !.lookup = lkp]
       ELSE IF CapReached(st.counts, doc_id, stg.per_doc)
            THEN [st EXCEPT !.lookup = lkp, !.counts = counted]
       ELSE [lookup |-> lkp,
             counts |-> (doc_id :> Count(st.counts, doc_id) + 1) @@ st.counts,
             processed |-> out,
             kept |-> Append(st.kept, pos),
             stop |-> lim.some /\ Len(out) >= lim.v]

LoopStart(sto) ==
    [lookup |-> InitialLookup(sto), counts |-> [d \in {} |-> 0],
     processed |-> <<>>, kept |-> <<>>, stop |-> FALSE]

RECURSIVE PrepareLoop(_, _, _, _, _, _)
PrepareLoop(st, i, hs, sto, stg, lim) ==
    IF i > Len(hs) \/ st.stop THEN st
    ELSE PrepareLoop(LoopBody(st, hs[i], i, sto, stg, lim), i + 1, hs, sto, stg, lim)

prepare_hits(hs, sto, stg, lim) ==
    IF hs = <<>> THEN <<>>
    ELSE PrepareLoop(LoopStart(sto), 1, hs, sto, stg, lim).processed

----------------------------------------------------------------------------
(* query_faiss CLI (scripts/query_faiss.py): its own filter and the         *)
(* per-document diversification of main()                                  *)

\* query_faiss.py lines 27-39
cli_neighbor_ids(cid, neighbors) ==
    IF neighbors <= 0 THEN <<cid>>
    ELSE IF ~IsInt(cid.tail) THEN <<cid>>
    ELSE LET i == ParseInt(cid.tail)
         IN [k \in 1..(2 * neighbors + 1) |->
                [base |-> cid.base, marker |-> TRUE,
                 tail |-> Fmt04(i - neighbors + k - 1)]]

RECURSIVE CliStitchLoop(_, _, _, _, _, _, _, _)
\* the for loop of the CLI's stitch_preview: the text is not stripped
CliStitchLoop(nids, k, center_doc, lkp, max_chars, no_truncate, parts, total_len) ==
    IF k > Len(nids) THEN parts
    ELSE
      LET nid == nids[k]
          rec == Get(lkp, nid)
          txt == ReplaceNewlines(rec.text)
          room == max_chars - total_len
          skip == CliStitchLoop(nids, k + 1, center_doc, lkp, max_chars, no_truncate,
                                parts, total_len)
      IN IF rec = EmptyRec \/ DocOf(rec, nid) # center_doc THEN skip
         ELSE IF txt = <<>> THEN skip
         ELSE IF no_truncate
              THEN CliStitchLoop(nids, k + 1, center_doc, lkp, max_chars, no_truncate,
                                 Append(parts, txt), total_len)
         ELSE IF room <= 0 THEN parts
         ELSE IF Len(txt) <= room
              THEN CliStitchLoop(nids, k + 1, center_doc, lkp, max_chars, no_truncate,
                                 Append(parts, txt), total_len + Len(txt))
         ELSE Append(parts, Take(txt, room))

CliStitchParts(nids, center_doc, lkp, max_chars, no_truncate) ==
    CliStitchLoop(nids, 1, center_doc, lkp, max_chars, no_truncate, <<>>, 0)

\* stitch_preview of scripts/query_faiss.py
cli_stitch_preview(center_rec, lkp, neighbors, max_chars, no_truncate) ==
    LET cid == center_rec.id
        center_doc == DocOf(center_rec, cid)
        parts == CliStitchParts(cli_neighbor_ids(cid, neighbors), center_doc, lkp,
                                max_chars, no_truncate)
        joined == IF parts # <<>> THEN Join(parts, <<" ">>) ELSE center_rec.text
    IN IF no_truncate THEN joined ELSE Take(joined, max_chars)


cli_passes_filters(rec, contains_any, year_min, year_max) ==
    LET text == Lower(rec.text)
        y == rec.year
    IN IF contains_any # <<>>
          /\ ~\E i \in 1..Len(contains_any) : Contains(text, contains_any[i])
       THEN FALSE
       ELSE IF year_min.some /\ y.k = "int" /\ y.v < year_min.v THEN FALSE
       ELSE IF year_max.some /\ y.k = "int" /\ y.v > year_max.v THEN FALSE
       ELSE TRUE

Max(a, b) == IF a >= b THEN a ELSE b

RECURSIVE SeqToSet(_)
SeqToSet(sq) == IF sq = <<>> THEN {} ELSE {Head(sq)} \cup SeqToSet(Tail(sq))

\* lines 156-161: the records of the chunks file within the neighbour windows
CliLookup(hs, chunks, neighbors) ==
    LET needed == UNION {SeqToSet(neighbor_ids(hs[i].id, neighbors)) : i \in 1..Len(hs)}
    IN [c \in (needed \cap DOMAIN chunks) |-> chunks[c]]

RECURSIVE CliCandidates(_, _, _)
\* lines 165-175
CliCandidates(hs, lkp, stg) ==
    IF hs = <<>> THEN <<>>
    ELSE LET rec == Get(lkp, Head(hs).id)
             rest == CliCandidates(Tail(hs), lkp, stg)
         IN IF rec = EmptyRec THEN rest
            ELSE IF ~cli_passes_filters(rec, stg.contains, stg.year_min, stg.year_max)
                 THEN rest
            ELSE <<[score |-> FloatScore(Head(hs).score), cid |-> Head(hs).id,
                    rec |-> rec]>> \o rest

RECURSIVE CliDiversify(_, _, _, _, _)
\* lines 178-187
CliDiversify(cands, counts, out, per_doc, k) ==
    IF cands = <<>> THEN out
    ELSE LET c == Head(cands)
             doc == DocOf(c.rec, c.cid)
             out2 == Append(out, c)
         IN IF Count(counts, doc) >= Max(1, per_doc)
            THEN CliDiversify(Tail(cands), counts, out, per_doc, k)
            ELSE IF Len(out2) >= k THEN out2
            ELSE CliDiversify(Tail(cands), (doc :> Count(counts, doc) + 1) @@ counts,
                              out2, per_doc, k)

----------------------------------------------------------------------------
(* PortsRetriever (rag/langchain_adapters.py) *)

NoRange == [some |-> FALSE, lo |-> NoBound, hi |-> NoBound]

\* __init__, lines 62-77: the bounds swapped when reversed, None when neither is set
PortsYearRange(ymin, ymax) ==
    IF ymin.some /\ ymax.some /\ ymin.v > ymax.v
    THEN [some |-> TRUE, lo |-> ymax, hi |-> ymin]
    ELSE IF ymin.some \/ ymax.some THEN [some |-> TRUE, lo |-> ymin, hi |-> ymax]
    ELSE NoRange

within_year_range_open(yr, year_val) ==
    LET y == ToInt(year_val)
    IN IF ~yr.some THEN TRUE
       ELSE IF ~y.ok THEN FALSE
       ELSE IF yr.lo.some /\ y.v <= yr.lo.v THEN FALSE
       ELSE IF yr.hi.some /\ y.v >= yr.hi.v THEN FALSE
       ELSE TRUE

\* _within_year_range
within_year_range(yr, year_val) ==
    LET y == ToInt(year_val)
    IN IF ~yr.some THEN TRUE
       ELSE IF ~y.ok THEN FALSE
       ELSE IF yr.lo.some /\ y.v < yr.lo.v THEN FALSE
       ELSE IF yr.hi.some /\ y.v > yr.hi.v THEN FALSE
       ELSE TRUE

\* _contains_match
contains_match(kws, text) ==
    IF kws = <<>> THEN TRUE
    ELSE \E i \in 1..Len(kws) : Contains(Lower(text), kws[i])

\* _fetch_meta: the cached record, else the store's point lookup; found = FALSE
\* for None
fetch_meta(chunk_id, cache, sto) ==
    IF chunk_id \in DOMAIN cache THEN [found |-> TRUE, rec |-> cache[chunk_id]]
    ELSE IF sto.point /\ chunk_id \in DOMAIN sto.map
         THEN [found |-> TRUE, rec |-> sto.map[chunk_id]]
    ELSE [found |-> FALSE, rec |-> EmptyRec]

RECURSIVE SortedSeq(_)
\* sorted(chunk_indices)
SortedSeq(S) ==
    IF S = {} THEN <<>>
    ELSE LET m == CHOOSE x \in S : \A y \in S : x <= y
         IN <<m>> \o SortedSeq(S \ {m})

RECURSIVE PortsStitchLoop(_, _, _, _, _, _)
\* _stitch, lines 129-153 (pages are left out)
PortsStitchLoop(nids, k, doc_id, cache, sto, acc) ==
    IF k > Len(nids) THEN acc
    ELSE
      LET nid == nids[k]
          f == fetch_meta(nid, cache, sto)
          content == IF f.rec.text # <<>> THEN f.rec.text ELSE f.rec.preview
          tail_idx == IF f.rec.chunk_index.some THEN {f.rec.chunk_index.v}
                      ELSE IF IsInt(nid.tail) THEN {ParseInt(nid.tail)}
                      ELSE {}
          next == [parts |-> IF content # <<>> THEN Append(acc.parts, Strip(content))
                             ELSE acc.parts,
                   chunk_indices |-> acc.chunk_indices \cup tail_idx]
      IN IF ~f.found THEN PortsStitchLoop(nids, k + 1, doc_id, cache, sto, acc)
         ELSE IF DocOf(f.rec, nid) # doc_id
              THEN PortsStitchLoop(nids, k + 1, doc_id, cache, sto, acc)
         ELSE PortsStitchLoop(nids, k + 1, doc_id, cache, sto, next)

ports_stitch_center_only(center_id, doc_id, cache, sto, neighbors) ==
    LET r == PortsStitchLoop(<<center_id>>, 1, doc_id, cache, sto,
                             [parts |-> <<>>, chunk_indices |-> {}])
    IN [stitched |-> Strip(Join(r.parts, <<"\n", "\n">>)),
        chunk_indices |-> SortedSeq(r.chunk_indices)]

\* _stitch: the stitched text and the chunk indices
ports_stitch(center_id, doc_id, cache, sto, neighbors) ==
    LET r == PortsStitchLoop(neighbor_ids(center_id, neighbors), 1, doc_id, cache, sto,
                             [parts |-> <<>>, chunk_indices |-> {}])
    IN [stitched |-> Strip(Join(r.parts, <<"\n", "\n">>)),
        chunk_indices |-> SortedSeq(r.chunk_indices)]

\* the falsy years of "rec.get("year") or meta.get("year")": None, 0, ""
FalsyYear(y) ==
    y.k = "none" \/ (y.k = "int" /\ y.v = 0) \/ (y.k = "str" /\ y.s = <<>>)

\* lines 212-215: float(hit.get("score", 0.0)), 0.0 when it raises
PortsScore(score) == IF score.k = "num" THEN score.v ELSE 0

RECURSIVE PortsLoop(_, _, _, _, _, _)
\* _get_relevant_documents, lines 185-229: the loop over raw_hits from position
\* k on; acc holds docs, per_doc_counts and the positions of the hits that made
\* the documents
PortsLoop(raw_hits, k, cache, sto, cfg, acc) ==
    IF k > Len(raw_hits) THEN acc
    ELSE
      LET hit == raw_hits[k]
          md == hit.metadata
          chunk_id == HitChunkId(hit)
          f == fetch_meta(chunk_id, cache, sto)
          rec == IF f.found /\ f.rec # EmptyRec THEN f.rec ELSE md
          doc_id == DocOf(rec, chunk_id)
          year_val == IF ~FalsyYear(rec.year) THEN rec.year ELSE md.year
          base_text == IF rec.text # <<>> THEN rec.text
                       ELSE IF rec.preview # <<>> THEN rec.preview
                       ELSE md.text
          st == ports_stitch(chunk_id, doc_id, cache, sto, cfg.neighbors)
          count == IF doc_id \in DOMAIN acc.counts THEN acc.counts[doc_id] ELSE 0
          metadata == enrich_metadata([doc_id |-> doc_id, year |-> year_val,
                                       chunk_indices |-> st.chunk_indices,
                                       score |-> PortsScore(hit.score), url |-> <<>>])
          added == [docs |-> Append(acc.docs, [page_content |-> st.stitched,
                                               metadata |-> metadata]),
                    counts |-> IF cfg.diversify_per_doc
                               THEN (doc_id :> count + 1) @@ acc.counts
                               ELSE acc.counts,
                    centers |-> Append(acc.centers, k)]
          skip == PortsLoop(raw_hits, k + 1, cache, sto, cfg, acc)
      IN IF chunk_id = NoId THEN skip
         ELSE IF ~within_year_range(cfg.year_range, year_val) THEN skip
         ELSE IF ~contains_match(cfg.contains, base_text) THEN skip
         ELSE IF st.stitched = <<>> THEN skip
         ELSE IF cfg.diversify_per_doc /\ count >= 1 THEN skip
         ELSE IF Len(added.docs) >= cfg.top_k THEN added
         ELSE PortsLoop(raw_hits, k + 1, cache, sto, cfg, added)

\* _get_relevant_documents on what search_raw returned
ports_documents(raw_hits, sto, cfg) ==
    PortsLoop(raw_hits, 1, InitialLookup(sto), sto, cfg,
              [docs |-> <<>>, counts |-> [d \in {} |-> 0], centers |-> <<>>])

----------------------------------------------------------------------------
(* The corpus and the inputs of the model *)

c11 == ChunkId("d1", 1)

c12 == ChunkId("d1", 2)

c13 == ChunkId("d1", 3)

c21 == ChunkId("d2", 1)

c22 == ChunkId("d2", 2)

c31 == ChunkId("d3", 1)

Y2021 == <<"2", "0", "2", "1">>

\* the chunks file: a record without doc_id, one whose doc_id is not its id's
\* prefix, years that are integers, numeric strings, unparseable and missing
Chunks ==
    (c11 :> MkRec(c11, "d1", <<"a", " ", "b">>, IntYear(2020)))
    @@ (c12 :> MkRec(c12, "", <<"A">>, StrYear(Y2021)))
    @@ (c13 :> MkRec(c13, "d2", <<"b", "\n", "b">>, NoYear))
    @@ (c21 :> MkRec(c21, "d2", <<"b">>, StrYear(<<"n", "d">>)))
    @@ (c22 :> MkRec(c22, "d2", <<"A", "b">>, IntYear(2020)))

MkHit(cid, score, md) == [id |-> cid, score |-> score, metadata |-> md]

\* raw hits: with the store's record, with no metadata, with no id at all, and
\* with an id the chunks file lacks whose metadata came with the hit
HitPool ==
    { MkHit(c13, NumScore(8), EmptyRec),
      MkHit(c21, NoScore, Chunks[c21]),
      MkHit(c22, NumScore(6), Chunks[c22]),
      MkHit(NoId, NumScore(5), EmptyRec),
      MkHit(c31, NumScore(4), MkRec(c31, "", <<"a">>, StrYear(Y2021))) }

\* sequences of distinct hits (a store returns each index row once)
HitSeqs ==
    UNION {{h \in [1..n -> HitPool] : \A i, j \in 1..n : i # j => h[i] # h[j]}
           : n \in 0..MaxHits}

YearMins == {NoBound, Bound(2021)}

YearMaxs == {NoBound, Bound(2020)}

SettingsPool ==
    [contains : {<<>>, <<<<"x">>, <<"a">>>>},
     year_min : YearMins,
     year_max : YearMaxs,
     neighbors : {1},
     per_doc : 1..MaxPerDoc,
     max_preview_chars : {DefaultPreviewChars},
     max_snippet_chars : {DefaultSnippetChars}]

LimitPool == {NoLimit, Bound(0), Bound(2)}

StorePool ==
    {[map |-> Chunks, bulk |-> TRUE, point |-> TRUE],
     [map |-> Chunks, bulk |-> FALSE, point |-> TRUE],
     [map |-> Chunks, bulk |-> FALSE, point |-> FALSE]}

----------------------------------------------------------------------------
(* Values of the variables an operation does not use *)

NoQuestion == [some |-> FALSE, s |-> <<>>]

Question(str) == [some |-> TRUE, s |-> str]

NoUsage == [key \in {} |-> ""]

NoResponse ==
    [answer |-> [text |-> <<>>, lines |-> <<>>], sources |-> <<>>, usage |-> NoUsage]

IdleAsk ==
    [path |-> "idle", question |-> NoQuestion, k |-> 1, mode |-> "", filters |-> NoFilters,
     rerank |-> "none", has_reranker |-> FALSE, q |-> <<>>, log |-> <<>>,
     store_hits |-> <<>>, raised |-> {}, returned |-> FALSE, response |-> NoResponse,
     prompt |-> <<>>, route |-> "direct"]

IdleArgs == [rec |-> EmptyRec, no_truncate |-> FALSE]

IdleThr == <<>>

IdleSettings ==
    [contains |-> <<>>, year_min |-> NoBound, year_max |-> NoBound, neighbors |-> 0,
     per_doc |-> 1, max_preview_chars |-> DefaultPreviewChars,
     max_snippet_chars |-> DefaultSnippetChars]

IdleStore == [map |-> EmptyMap, bulk |-> FALSE, point |-> FALSE]

----------------------------------------------------------------------------
(* Spec: one call of prepare_hits, or one run of the CLI's filter and      *)
(* diversification, on the same raw hits                                   *)

Init ==
    /\ pc = "start"
    /\ hits \in HitSeqs
    /\ settings \in SettingsPool
    /\ limit \in LimitPool
    /\ store \in StorePool
    /\ lookup = EmptyMap
    /\ idx = 1
    /\ per_doc_counts = [d \in {} |-> 0]
    /\ processed = <<>>
    /\ kept = <<>>
    /\ results = <<>>
    /\ args = IdleArgs
    /\ fout = <<>>
    /\ ask = IdleAsk
    /\ meta = EmptyMap
    /\ thr = IdleThr

\* lines 199-210: the early return on no hits, else the lookup is set up
PrepareStart ==
    /\ pc = "start"
    /\ pc' = IF hits = <<>> THEN "done" ELSE "loop"
    /\ lookup' = IF hits = <<>> THEN lookup ELSE LoopStart(store).lookup
    /\ UNCHANGED <<hits, settings, limit, store, idx, per_doc_counts, processed, kept,
                   results, args, fout, ask, meta, thr>>

\* lines 212-269: the loop body on hits[idx], and the return once the loop ends
PrepareStep ==
    /\ pc = "loop"
    /\ idx <= Len(hits)
    /\ \E st \in {LoopBody([lookup |-> lookup, counts |-> per_doc_counts,
                             processed |-> processed, kept |-> kept, stop |-> FALSE],
                            hits[idx], idx, store, settings, limit)} :
          /\ lookup' = st.lookup
          /\ per_doc_counts' = st.counts
          /\ processed' = st.processed
          /\ kept' = st.kept
          /\ idx' = idx + 1
          /\ pc' = IF st.stop \/ idx + 1 > Len(hits) THEN "done" ELSE "loop"
    /\ UNCHANGED <<hits, settings, limit, store, results, args, fout, ask, meta, thr>>

\* query_faiss main(), steps 4-6, with k = limit (argparse makes k an integer)
CliMain ==
    /\ pc = "start"
    /\ limit.some
    /\ LET lkp == CliLookup(hits, store.map, settings.neighbors)
       IN results' = CliDiversify(CliCandidates(hits, lkp, settings),
                                  [d \in {} |-> 0], <<>>, settings.per_doc, limit.v)
    /\ pc' = "cli_done"
    /\ UNCHANGED <<hits, settings, limit, store, lookup, idx, per_doc_counts, processed,
                   kept, args, fout, ask, meta, thr>>

Next == PrepareStart \/ PrepareStep \/ CliMain

Spec == Init /\ [][Next]_vars

----------------------------------------------------------------------------
(* Claims about prepare_hits, checked under Spec *)

\* the loop has run its body on positions 1 .. idx - 1 of hits
Reached == IF pc \in {"loop", "done"} THEN 1..(idx - 1) ELSE {}

\* the metadata the call resolved for the hit at a reached position
MetaAt(p) == ResolveMeta(lookup, hits[p])

IsKept(p) == \E i \in 1..Len(kept) : kept[i] = p

KeptBefore(p) ==
    Cardinality({i \in 1..Len(kept) :
                   kept[i] < p /\ MetaAt(kept[i]).doc_id = MetaAt(p).doc_id})

\* the keyword filter: no keyword asked, or one of them occurs in the lowercased
\* text (the preview when there is no text)
KeywordPasses(m) ==
    \/ settings.contains = <<>>
    \/ \E i \in 1..Len(settings.contains) :
          Contains(Lower(IF m.text # <<>> THEN m.text ELSE m.preview),
                   settings.contains[i])

\* the year filter: a year that parses to an integer lies within the bounds set
YearPasses(m) ==
    LET y == ToInt(m.year)
    IN y.ok => /\ (settings.year_min.some => y.v >= settings.year_min.v)
               /\ (settings.year_max.some => y.v <= settings.year_max.v)

DocsOut(out) == {out[i].metadata.doc_id : i \in 1..Len(out)}

TimesIn(out, d) == Cardinality({i \in 1..Len(out) : out[i].metadata.doc_id = d})

CliTimesIn(out, d) ==
    Cardinality({i \in 1..Len(out) : DocOf(out[i].rec, out[i].cid) = d})

\* C2: with per_doc = N (N >= 1, as RetrievalSettings keeps it), no doc_id is
\* carried by more than N of the hits prepare_hits has collected, at any point
\* of any call; nor by more than N results of the CLI's diversification loop.
C2_PerDocCap ==
    /\ \A d \in DocsOut(processed) :
          d # "" /\ TimesIn(processed, d) <= settings.per_doc
    /\ \A i \in 1..Len(results) :
          CliTimesIn(results, DocOf(results[i].rec, results[i].cid)) <= settings.per_doc

\* a finished call in which a document filled its cap and a later hit of that
\* document, passing both filters, was turned away
C2_Witness ==
    /\ pc = "done"
    /\ \E p \in Reached :
          /\ HitChunkId(hits[p]) # NoId
          /\ ~IsKept(p)
          /\ KeywordPasses(MetaAt(p)) /\ YearPasses(MetaAt(p))
          /\ TimesIn(processed, MetaAt(p).doc_id) = settings.per_doc

RECURSIVE IsSubsequence(_, _)
\* a is b with some elements left out, the order kept
IsSubsequence(a, b) ==
    IF a = <<>> THEN TRUE
    ELSE IF b = <<>> THEN FALSE
    ELSE IF Head(a) = Head(b) THEN IsSubsequence(Tail(a), Tail(b))
    ELSE IsSubsequence(a, Tail(b))

\* C3: the ids of the hits collected form a subsequence of the ids of the raw
\* hits: survivors keep their relative order, nothing is re-sorted.
C3_StableFilter ==
    IsSubsequence([i \in 1..Len(processed) |-> processed[i].id],
                  [i \in 1..Len(hits) |-> HitChunkId(hits[i])])

\* a finished call that returned two hits and dropped a hit that stood between them
C3_Witness ==
    /\ pc = "done"
    /\ Len(processed) >= 2
    /\ \E p \in Reached : kept[1] < p /\ p < kept[2] /\ ~IsKept(p)

----------------------------------------------------------------------------
(* SpecFilters: the three year/keyword filters applied to one record        *)

YearPool ==
    {NoYear, IntYear(2019), IntYear(2020), IntYear(2021), IntYear(2022),
     StrYear(Y2021), StrYear(<<"n", "d">>)}

FilterRecPool ==
    {[EmptyRec EXCEPT !.id = c11, !.doc_id = "d1", !.text = t, !.year = y] :
        t \in {<<>>, <<"A", "b">>, <<"b">>}, y \in YearPool}

InitFilters ==
    /\ pc = "start"
    /\ args \in [rec : FilterRecPool, no_truncate : {FALSE}]
    /\ settings \in [contains : {<<>>, <<<<"x">>, <<"a">>>>},
                     year_min : YearMins, year_max : YearMaxs \cup {Bound(2022)},
                     neighbors : {1}, per_doc : {1},
                     max_preview_chars : {DefaultPreviewChars},
                     max_snippet_chars : {DefaultSnippetChars}]
    /\ hits = <<>>
    /\ limit = NoLimit
    /\ store = IdleStore
    /\ lookup = EmptyMap
    /\ idx = 1
    /\ per_doc_counts = [d \in {} |-> 0]
    /\ processed = <<>>
    /\ kept = <<>>
    /\ results = <<>>
    /\ fout = <<>>
    /\ ask = IdleAsk
    /\ meta = EmptyMap
    /\ thr = IdleThr

\* prepare_hits line 243
ApplyPassesFilters ==
    /\ pc = "start"
    /\ fout' = [ok |-> passes_filters(args.rec, settings.contains, settings.year_min,
                                      settings.year_max)]
    /\ pc' = "passes_filters"
    /\ UNCHANGED <<hits, settings, limit, store, lookup, idx, per_doc_counts, processed,
                   kept, results, args, ask, meta, thr>>

\* PortsRetriever._get_relevant_documents lines 194-200
ApplyPortsFilters ==
    /\ pc = "start"
    /\ fout' = [ok |-> /\ within_year_range(
                            PortsYearRange(settings.year_min, settings.year_max),
                            args.rec.year)
                       /\ contains_match(settings.contains,
                                         IF args.rec.text # <<>> THEN args.rec.text
                                         ELSE args.rec.preview)]
    /\ pc' = "ports_filters"
    /\ UNCHANGED <<hits, settings, limit, store, lookup, idx, per_doc_counts, processed,
                   kept, results, args, ask, meta, thr>>

\* query_faiss main line 173
ApplyCliFilters ==
    /\ pc = "start"
    /\ fout' = [ok |-> cli_passes_filters(args.rec, settings.contains,
                                          settings.year_min, settings.year_max)]
    /\ pc' = "cli_filters"
    /\ UNCHANGED <<hits, settings, limit, store, lookup, idx, per_doc_counts, processed,
                   kept, results, args, ask, meta, thr>>

NextFilters == ApplyPassesFilters \/ ApplyPortsFilters \/ ApplyCliFilters

SpecFilters == InitFilters /\ [][NextFilters]_vars

YearBoundSet == settings.year_min.some \/ settings.year_max.some

YearUnparseable == ~ToInt(args.rec.year).ok

\* C5: with year_min or year_max set, a hit whose year is missing or does not
\* parse to an integer is rejected; with neither set, such a hit is never
\* rejected for its year (only the keyword filter decides).  For passes_filters
\* and for PortsRetriever._within_year_range.
C5_UnparseableYear ==
    (pc \in {"passes_filters", "ports_filters"} /\ YearUnparseable) =>
        IF YearBoundSet THEN ~fout.ok ELSE fout.ok <=> KeywordPasses(args.rec)

----------------------------------------------------------------------------
(* SpecStitch: stitch_preview and PortsRetriever._stitch applied to one     *)
(* centre record over one lookup.  The text of a record is written in the  *)
(* letter of the document the record belongs to, so that the letters of a  *)
(* stitched text tell which documents it was taken from.                   *)

Letter(d) == IF d = "d1" THEN "a" ELSE IF d = "d2" THEN "b" ELSE "c"

\* the text of the n-th chunk of document d: with a newline, plain, with
\* blanks around it
TextOf(d, n) ==
    IF n = 1 THEN <<Letter(d), "\n", Letter(d)>>
    ELSE IF n = 2 THEN <<Letter(d), Letter(d)>>
    ELSE <<" ", Letter(d), Letter(d), Letter(d), " ">>

\* a record stored under id d1_chunk<n> whose doc_id field is doc ("" for none)
StitchRec(n, doc) ==
    MkRec(ChunkId("d1", n), doc, TextOf(DocOf([doc_id |-> doc], ChunkId("d1", n)), n),
          NoYear)

\* lookups over d1_chunk0001 .. 0003: each id absent, or mapped to a record
\* without doc_id, of d1, or of d2
StitchLookups ==
    {m \in UNION {[{ChunkId("d1", n) : n \in present} ->
                       {StitchRec(n, doc) : n \in 1..3, doc \in {"", "d1", "d2"}}]
                   : present \in SUBSET (1..3)} :
        \A c \in DOMAIN m : m[c].id = c}

\* centre records: d1_chunk0002 without doc_id, of d1, of d2 (its own text in
\* the letter "c"); a record without id; a record whose id has no _chunk marker
CenterPool ==
    {MkRec(c12, doc, <<"c", "\n", "c", "c", "c", "c">>, NoYear) : doc \in {"", "d1", "d2"}}
    \cup {MkRec(NoId, "d1", <<"c", "\n", "c", "c", "c", "c">>, NoYear),
          MkRec([base |-> "d1", marker |-> FALSE, tail |-> <<>>], "",
                <<"c", "c">>, NoYear)}

InitStitch ==
    /\ pc = "start"
    /\ args \in [rec : CenterPool, no_truncate : BOOLEAN]
    /\ lookup \in StitchLookups
    /\ store = [map |-> lookup, bulk |-> TRUE, point |-> TRUE]
    /\ settings \in [contains : {<<>>}, year_min : {NoBound}, year_max : {NoBound},
                     neighbors : 0..MaxNeighbors, per_doc : {1},
                     max_preview_chars : 0..MaxChars,
                     max_snippet_chars : {DefaultSnippetChars}]
    /\ hits = <<>>
    /\ limit = NoLimit
    /\ idx = 1
    /\ per_doc_counts = [d \in {} |-> 0]
    /\ processed = <<>>
    /\ kept = <<>>
    /\ results = <<>>
    /\ fout = <<>>
    /\ ask = IdleAsk
    /\ meta = EmptyMap
    /\ thr = IdleThr

\* stitch_preview(center_rec, lookup, neighbors=, max_chars=, no_truncate=)
ApplyStitchPreview ==
    /\ pc = "start"
    /\ fout' = [text |-> stitch_preview(args.rec, lookup, settings.neighbors,
                                        settings.max_preview_chars, args.no_truncate)]
    /\ pc' = "stitched"
    /\ UNCHANGED <<hits, settings, limit, store, lookup, idx, per_doc_counts, processed,
                   kept, results, args, ask, meta, thr>>

\* PortsRetriever._stitch(chunk_id, doc_id, cache), as _get_relevant_documents
\* calls it (lines 187-202): hits without id are skipped before
ApplyPortsStitch ==
    /\ pc = "start"
    /\ args.rec.id # NoId
    /\ LET r == ports_stitch(args.rec.id, DocOf(args.rec, args.rec.id), lookup, store,
                             settings.neighbors)
       IN fout' = [text |-> r.stitched, chunk_indices |-> r.chunk_indices]
    /\ pc' = "ports_stitched"
    /\ UNCHANGED <<hits, settings, limit, store, lookup, idx, per_doc_counts, processed,
                   kept, results, args, ask, meta, thr>>

\* the CLI's stitch_preview(rec, lookup, neighbors=, max_chars=, no_truncate=),
\* on a result record, which query_faiss.py takes from the lookup by its id
ApplyCliStitchPreview ==
    /\ pc = "start"
    /\ args.rec.id # NoId
    /\ fout' = [text |-> cli_stitch_preview(args.rec, lookup, settings.neighbors,
                                            settings.max_preview_chars, args.no_truncate)]
    /\ pc' = "cli_stitched"
    /\ UNCHANGED <<hits, settings, limit, store, lookup, idx, per_doc_counts, processed,
                   kept, results, args, ask, meta, thr>>

NextStitch == ApplyStitchPreview \/ ApplyPortsStitch \/ ApplyCliStitchPreview

SpecStitch == InitStitch /\ [][NextStitch]_vars

Letters(text) == {text[i] : i \in 1..Len(text)} \ Whitespace

CenterDoc == DocOf(args.rec, args.rec.id)

\* ids of the neighbour window that the lookup maps to a record of another
\* document than the centre's
ForeignInWindow ==
    {nid \in SeqToSet(neighbor_ids(args.rec.id, settings.neighbors)) :
        nid \in DOMAIN lookup /\ DocOf(lookup[nid], nid) # CenterDoc}

\* C4: the stitched text holds text only of chunks whose doc_id is the centre
\* chunk's doc_id, or of the centre record itself, whatever records the ids of
\* the numeric window map to; for stitch_preview and for PortsRetriever._stitch.
C4_CrossDocumentGuard ==
    /\ pc = "stitched" =>
          \/ Letters(fout.text) \subseteq {Letter(CenterDoc)}
          \/ Letters(fout.text) \subseteq Letters(args.rec.text)
    /\ pc = "ports_stitched" => Letters(fout.text) \subseteq {Letter(CenterDoc)}

\* a stitched preview made of chunk text of the centre's document, over a window
\* in which another id maps to a record of another document
C4_Witness ==
    /\ pc = "stitched"
    /\ settings.neighbors >= 1
    /\ ForeignInWindow # {}
    /\ Letters(fout.text) = {Letter(CenterDoc)}

----------------------------------------------------------------------------
(* SpecAsk: one request through QAPipeline.ask (app/services/qa.py), or one *)
(* invoke of the LangChain retrieval runnable (rag/chain.py).  Every call   *)
(* to a collaborator either returns or raises; ask.log records the calls   *)
(* made, ask.raised the collaborators that raised.                         *)

MaxAskHits == 2

OverfetchFactor == 5

OverfetchFloor == 50

QuestionPool ==
    {NoQuestion, Question(<<>>), Question(<<" ">>), Question(<<"\n", " ">>),
     Question(<<"q">>), Question(<<" ", "q", "\n">>)}

KPool == {1, 11}

ModePool == {"", "hybrid"}

\* request payloads: none, a keyword no chunk holds, a year bound as a string,
\* a year bound and a cap of one per document
FilterPayloads ==
    {NoFilters,
     [NoFilters EXCEPT !.contains = StrContains(<<"x", ",", " ">>)],
     [NoFilters EXCEPT !.year_min = StrYear(Y2021)],
     [NoFilters EXCEPT !.year_max = IntYear(2020), !.per_doc = IntYear(1),
                       !.contains = ListContains(<<<<"B">>, <<" ", "b">>>>)]}

AskHitPool ==
    { MkHit(c21, NoScore, Chunks[c21]),
      MkHit(c22, NumScore(6), Chunks[c22]),
      MkHit(c31, NumScore(4), MkRec(c31, "", <<"a">>, StrYear(Y2021))) }

\* what store.query may return: distinct hits, in the store's ranking
AskHitSeqs ==
    UNION {{h \in [1..n -> AskHitPool] : \A i, j \in 1..n : i # j => h[i] # h[j]}
           : n \in 0..MaxAskHits}

Perms(n) == {p \in [1..n -> 1..n] : \A i, j \in 1..n : i # j => p[i] # p[j]}

\* a reranker that returns: the hits in a new order, each with a new score
Reranked(hs, p) ==
    [i \in 1..Len(hs) |-> [hs[p[i]] EXCEPT !.score = NumScore(Len(hs) - i)]]

LlmAnswers == {<<"o", "k">>, <<" ", "o", "k", "\n">>}

LlmUsage == ("model" :> "m")

FallbackMessage ==
    <<"I couldn't find relevant passages in the current corpus for that question.">>

NoKwargs ==
    [k |-> 0, mode |-> "", has_filters |-> FALSE, year_min |-> NoBound,
     year_max |-> NoBound]

Event(call, kwargs) == [call |-> call, kwargs |-> kwargs]

TrimQuestionNoStrip(question) == IF question.some THEN question.s ELSE <<>>

\* line 35: q = (question or "").strip()
TrimQuestion(question) == IF question.some THEN Strip(question.s) ELSE <<>>

\* line 51
Overfetch(k) == Max(k * OverfetchFactor, OverfetchFloor)

\* lines 45-56
QueryKwargs(k, mode, stg) ==
    [k |-> Overfetch(k), mode |-> mode,
     has_filters |-> stg.year_min.some \/ stg.year_max.some,
     year_min |-> stg.year_min, year_max |-> stg.year_max]

MinimalKwargsPlainK(k) == [NoKwargs EXCEPT !.k = k]

\* line 62
MinimalKwargs(k) == [NoKwargs EXCEPT !.k = Overfetch(k)]

DoRerankExplicit(rerank) == rerank = "true"

\* line 65
DoRerank(rerank) == IF rerank = "none" THEN TRUE ELSE rerank = "true"

AbsorbedNone == {}

AbsorbedWithLlm == {"reranker", "llm"}

\* the collaborators whose exceptions ask catches (lines 67-71; the TypeError
\* of the first query is retried, lines 58-62)
Absorbed == {"reranker"}

ShortCircuitNever(prepared) == FALSE

\* line 76: if not hits
ShortCircuit(prepared) == prepared = <<>>

\* line 37
EmptyQuestionResponse ==
    [answer |-> [text |-> <<>>, lines |-> <<>>], sources |-> <<>>,
     usage |-> ("error" :> "empty_question")]

\* lines 78-82
NoHitsResponse ==
    [answer |-> [text |-> FallbackMessage, lines |-> <<>>], sources |-> <<>>,
     usage |-> ("retrieved" :> "0")]

\* f"S{idx}"
Sid(i) == <<"S">> \o DigitsOf(i)

\* the character U+2026
Ellipsis == "..."

\* format_snippet (app/services/formatting.py)
format_snippet(text, length) ==
    IF text = <<>> THEN <<>>
    ELSE IF Len(Strip(text)) <= length THEN Strip(text)
    ELSE Take(Strip(text), length) \o <<Ellipsis>>

\* md.get("preview") or md.get("text") or ""
SnippetText(md) == IF md.preview # <<>> THEN md.preview ELSE md.text

\* qa.py lines 87-94: the prompt line of the idx-th hit; the title of a
\* prepared hit is its doc_id when the record names none (utils.py 232-233)
PromptLine(hit, i, stg) ==
    [sid |-> Sid(i),
     title |-> IF hit.metadata.doc_id # "" THEN hit.metadata.doc_id ELSE "Source",
     year |-> hit.metadata.year,
     snippet |-> format_snippet(SnippetText(hit.metadata), stg.max_snippet_chars)]

\* qa.py lines 84-94: for idx, hit in enumerate(hits, start=1)
PromptLines(prepared, stg) ==
    [i \in 1..Len(prepared) |-> PromptLine(prepared[i], i, stg)]

CitationFromZero(hit, i) ==
    [sid |-> Sid(i - 1), doc_id |-> hit.metadata.doc_id, year |-> hit.metadata.year,
     url |-> hit.metadata.url, score |-> hit.score,
     snippet |-> SnippetText(hit.metadata)]

\* build_prompt_entries (rag/retrieval/utils.py 272-321) on prepared hits,
\* which carry a doc_id
build_prompt_entries(prepared, snippet_char_limit) ==
    [lines |->
        [i \in 1..Len(prepared) |->
            LET md == prepared[i].metadata
                snippet_text == SnippetText(md)
            IN [sid |-> Sid(i),
                title |-> IF md.doc_id # "" THEN md.doc_id ELSE "Source",
                year |-> md.year,
                snippet |-> IF Len(snippet_text) > snippet_char_limit
                            THEN Take(snippet_text, snippet_char_limit) \o <<Ellipsis>>
                            ELSE snippet_text]],
     citations |->
        [i \in 1..Len(prepared) |->
            LET md == prepared[i].metadata
            IN [sid |-> Sid(i), doc_id |-> md.doc_id, year |-> md.year, url |-> md.url,
                score |-> prepared[i].score, snippet |-> SnippetText(md)]]]

\* lines 96-103: format_citation(hit) with its sid
Citation(hit, i) ==
    [sid |-> Sid(i), doc_id |-> hit.metadata.doc_id, year |-> hit.metadata.year,
     url |-> hit.metadata.url, score |-> hit.score,
     snippet |-> IF hit.metadata.preview # <<>> THEN hit.metadata.preview
                 ELSE hit.metadata.text]

\* lines 108-134
AnswerResponse(answer, usage, prepared) ==
    LET citations == [i \in 1..Len(prepared) |-> Citation(prepared[i], i)]
    IN [answer |-> IF citations # <<>>
                   THEN [text |-> Strip(answer),
                         lines |-> [i \in 1..Len(citations) |->
                                       [label |-> citations[i].sid,
                                        doc_id |-> citations[i].doc_id,
                                        url |-> citations[i].url]]]
                   ELSE [text |-> answer, lines |-> <<>>],
        sources |-> citations,
        usage |-> usage]

\* a Document of the retriever
Doc(text, md) == [page_content |-> text, metadata |-> md]

DocPool ==
    { Doc(<<"A", "b">>, [Chunks[c22] EXCEPT !.text = <<>>, !.score = NumScore(6)]),
      Doc(<<"b">>, [Chunks[c21] EXCEPT !.text = <<>>, !.preview = <<"b">>]),
      Doc(<<>>, [Chunks[c11] EXCEPT !.text = <<>>, !.preview = <<"a">>,
                                    !.score = NumScore(3)]) }

DocSeqs ==
    UNION {{d \in [1..n -> DocPool] : \A i, j \in 1..n : i # j => d[i] # d[j]}
           : n \in 0..MaxAskHits}

\* chain.py lines 357-362: the hit built from a Document
DocToHit(doc) ==
    LET md == [doc.metadata EXCEPT
                  !.text = doc.page_content,
                  !.preview = IF @ = <<>> THEN doc.page_content ELSE @]
    IN MkHit(NoId, md.score, md)

\* chain.py lines 374-378: the Document built from a hit
HitToDoc(hit) ==
    LET md == hit.metadata
        text == IF md.text # <<>> THEN md.text ELSE md.preview
    IN Doc(text, [md EXCEPT !.text = <<>>, !.score = hit.score])

\* router_chain.py lines 52-67: the k and rerank arguments _impact and
\* _statistic pass to qa.ask
RouterArgs(route, default_k, use_rerank) ==
    IF route = "statistic"
    THEN [k |-> Max(default_k, 4), rerank |-> "false"]
    ELSE [k |-> default_k, rerank |-> IF use_rerank THEN "true" ELSE "false"]

InitAsk ==
    /\ \/ /\ pc = "CALLED"
          /\ ask \in {[IdleAsk EXCEPT !.path = "ask", !.question = qu, !.k = k,
                                      !.mode = m, !.filters = f, !.rerank = r,
                                      !.has_reranker = TRUE] :
                         qu \in QuestionPool, k \in KPool, m \in ModePool,
                         f \in FilterPayloads, r \in {"none", "true", "false"}}
          /\ store \in StorePool
       \/ /\ pc = "CALLED"
          /\ ask \in {[IdleAsk EXCEPT !.path = "ask", !.route = route,
                                      !.question = Question(<<"q">>),
                                      !.k = RouterArgs(route, dk, ur).k,
                                      !.rerank = RouterArgs(route, dk, ur).rerank,
                                      !.has_reranker = TRUE] :
                         route \in {"impact", "statistic"}, dk \in KPool,
                         ur \in BOOLEAN}
          /\ store = [map |-> Chunks, bulk |-> TRUE, point |-> TRUE]
       \/ /\ pc = "LC_CALLED"
          /\ ask \in {[IdleAsk EXCEPT !.path = "runnable", !.question = qu,
                                      !.has_reranker = hr] :
                         qu \in {NoQuestion, Question(<<"q">>)}, hr \in BOOLEAN}
          /\ store = IdleStore
    /\ hits = <<>>
    /\ settings = IdleSettings
    /\ limit = NoLimit
    /\ lookup = EmptyMap
    /\ idx = 1
    /\ per_doc_counts = [d \in {} |-> 0]
    /\ processed = <<>>
    /\ kept = <<>>
    /\ results = <<>>
    /\ args = IdleArgs
    /\ fout = <<>>
    /\ meta = EmptyMap
    /\ thr = IdleThr

\* qa.py lines 35-37
AskStart ==
    /\ pc = "CALLED"
    /\ LET q == TrimQuestion(ask.question)
       IN IF q = <<>>
          THEN /\ ask' = [ask EXCEPT !.q = q, !.returned = TRUE,
                                     !.response = EmptyQuestionResponse]
               /\ pc' = "EMPTY_QUESTION"
          ELSE /\ ask' = [ask EXCEPT !.q = q]
               /\ pc' = "TRIMMED"
    /\ UNCHANGED <<hits, settings, limit, store, lookup, idx, per_doc_counts, processed,
                   kept, results, args, fout, meta, thr>>

\* qa.py line 40: the embedder returns a vector, or raises
Embed ==
    /\ pc = "TRIMMED"
    /\ \E raises \in BOOLEAN :
          /\ ask' = [ask EXCEPT !.log = Append(@, Event("embed", NoKwargs)),
                                !.raised = IF raises THEN @ \cup {"embedder"} ELSE @]
          /\ pc' = IF raises /\ "embedder" \notin Absorbed THEN "FAILED" ELSE "EMBEDDED"
    /\ UNCHANGED <<hits, settings, limit, store, lookup, idx, per_doc_counts, processed,
                   kept, results, args, fout, meta, thr>>

\* qa.py lines 43-60: the settings, then store.query with the keyword arguments;
\* it returns hits, raises TypeError, or raises something else
Query ==
    /\ pc = "EMBEDDED"
    /\ settings' = resolve_retrieval_settings(ask.filters)
    /\ limit' = Bound(ask.k)
    /\ LET ev == Event("query", QueryKwargs(ask.k, ask.mode, settings'))
       IN \/ \E hs \in AskHitSeqs :
                /\ hits' = hs
                /\ ask' = [ask EXCEPT !.log = Append(@, ev), !.store_hits = hs]
                /\ pc' = "RETRIEVED"
          \/ /\ ask' = [ask EXCEPT !.log = Append(@, ev)]
             /\ pc' = "RETRY"
             /\ hits' = hits
          \/ /\ ask' = [ask EXCEPT !.log = Append(@, ev), !.raised = @ \cup {"store"}]
             /\ pc' = IF "store" \in Absorbed THEN "RETRIEVED" ELSE "FAILED"
             /\ hits' = hits
    /\ UNCHANGED <<store, lookup, idx, per_doc_counts, processed, kept, results, args,
                   fout, meta, thr>>

\* qa.py line 62: the retry with only k; whatever it raises leaves ask
QueryRetry ==
    /\ pc = "RETRY"
    /\ LET ev == Event("query", MinimalKwargs(ask.k))
       IN \/ \E hs \in AskHitSeqs :
                /\ hits' = hs
                /\ ask' = [ask EXCEPT !.log = Append(@, ev), !.store_hits = hs]
                /\ pc' = "RETRIEVED"
          \/ /\ ask' = [ask EXCEPT !.log = Append(@, ev), !.raised = @ \cup {"store"}]
             /\ pc' = IF "store" \in Absorbed THEN "RETRIEVED" ELSE "FAILED"
             /\ hits' = hits
    /\ UNCHANGED <<settings, limit, store, lookup, idx, per_doc_counts, processed, kept,
                   results, args, fout, meta, thr>>

\* qa.py lines 65-71: the reranker is skipped, returns a new ranking, or raises
Rerank ==
    /\ pc = "RETRIEVED"
    /\ \/ /\ ~DoRerank(ask.rerank)
          /\ UNCHANGED <<hits, ask>>
          /\ pc' = "RERANKED"
       \/ /\ DoRerank(ask.rerank)
          /\ \E p \in Perms(Len(hits)) :
                hits' = Reranked(hits, p)
          /\ ask' = [ask EXCEPT !.log = Append(@, Event("rerank", NoKwargs))]
          /\ pc' = "RERANKED"
       \/ /\ DoRerank(ask.rerank)
          /\ hits' = hits
          /\ ask' = [ask EXCEPT !.log = Append(@, Event("rerank", NoKwargs)),
                                !.raised = @ \cup {"reranker"}]
          /\ pc' = IF "reranker" \in Absorbed THEN "RERANKED" ELSE "FAILED"
    /\ UNCHANGED <<settings, limit, store, lookup, idx, per_doc_counts, processed, kept,
                   results, args, fout, meta, thr>>

\* qa.py lines 74-82
Prepare ==
    /\ pc = "RERANKED"
    /\ processed' = prepare_hits(hits, store, settings, limit)
    /\ IF ShortCircuit(processed')
       THEN /\ ask' = [ask EXCEPT !.returned = TRUE, !.response = NoHitsResponse]
            /\ pc' = "NO_HITS"
       ELSE /\ ask' = ask
            /\ pc' = "PREPARED"
    /\ UNCHANGED <<hits, settings, limit, store, lookup, idx, per_doc_counts, kept,
                   results, args, fout, meta, thr>>

\* qa.py lines 84-134: the prompt, llm.chat (it answers or raises), the response
Chat ==
    /\ pc = "PREPARED"
    /\ LET ev == Event("chat", [NoKwargs EXCEPT !.k = Len(processed)])
       IN \/ \E answer \in LlmAnswers :
                /\ ask' = [ask EXCEPT
                             !.log = Append(@, ev), !.returned = TRUE,
                             !.prompt = PromptLines(processed, settings),
                             !.response = AnswerResponse(answer, LlmUsage, processed)]
                /\ pc' = "ANSWERED"
          \/ IF "llm" \in Absorbed
             THEN /\ ask' = [ask EXCEPT
                               !.log = Append(@, ev), !.raised = @ \cup {"llm"},
                               !.returned = TRUE,
                               !.prompt = PromptLines(processed, settings),
                               !.response = AnswerResponse(<<>>, NoUsage, processed)]
                  /\ pc' = "ANSWERED"
             ELSE /\ ask' = [ask EXCEPT !.log = Append(@, ev),
                                        !.prompt = PromptLines(processed, settings),
                                        !.raised = @ \cup {"llm"}]
                  /\ pc' = "FAILED"
    /\ UNCHANGED <<hits, settings, limit, store, lookup, idx, per_doc_counts, processed,
                   kept, results, args, fout, meta, thr>>


\* build_prompt_entries(hits, snippet_char_limit=) on the prepared hits of a
\* request
BuildPromptEntries ==
    /\ pc = "PREPARED"
    /\ fout' = build_prompt_entries(processed, settings.max_snippet_chars)
    /\ pc' = "ENTRIES"
    /\ UNCHANGED <<hits, settings, limit, store, lookup, idx, per_doc_counts, processed,
                   kept, results, args, ask, meta, thr>>

\* chain.py lines 382-383: the retriever returns documents, or raises
Retrieve ==
    /\ pc = "LC_CALLED"
    /\ \/ \E docs \in DocSeqs :
             /\ results' = docs
             /\ ask' = [ask EXCEPT !.log = Append(@, Event("retrieve", NoKwargs))]
             /\ pc' = "LC_RETRIEVED"
       \/ /\ results' = results
          /\ ask' = [ask EXCEPT !.log = Append(@, Event("retrieve", NoKwargs)),
                                !.raised = @ \cup {"retriever"}]
          /\ pc' = "LC_FAILED"
    /\ UNCHANGED <<hits, settings, limit, store, lookup, idx, per_doc_counts, processed,
                   kept, args, fout, meta, thr>>

\* chain.py lines 384-386 and _apply_rerank (354-379): the reranker returns a
\* new ranking, raises, or returns something that is not a list
ApplyRerank ==
    /\ pc = "LC_RETRIEVED"
    /\ LET hs == [i \in 1..Len(results) |-> DocToHit(results[i])]
           out(reranked) == [i \in 1..Len(reranked) |-> HitToDoc(reranked[i])]
       IN \/ /\ ~ask.has_reranker
             /\ fout' = [docs |-> results]
             /\ UNCHANGED <<hits, ask>>
          \/ /\ ask.has_reranker
             /\ \E p \in Perms(Len(hs)) :
                   /\ hits' = Reranked(hs, p)
                   /\ fout' = [docs |-> out(hits')]
             /\ ask' = [ask EXCEPT !.log = Append(@, Event("rerank", NoKwargs))]
          \/ /\ ask.has_reranker
             /\ \E cause \in {"reranker", "not_a_list"} :
                   ask' = [ask EXCEPT !.log = Append(@, Event("rerank", NoKwargs)),
                                      !.raised = @ \cup {cause}]
             /\ hits' = hs
             /\ fout' = [docs |-> out(hs)]
    /\ pc' = "LC_DONE"
    /\ UNCHANGED <<settings, limit, store, lookup, idx, per_doc_counts, processed, kept,
                   results, args, meta, thr>>

NextAsk ==
    \/ AskStart \/ Embed \/ Query \/ QueryRetry \/ Rerank \/ Prepare \/ Chat
    \/ BuildPromptEntries \/ Retrieve \/ ApplyRerank

SpecAsk == InitAsk /\ [][NextAsk]_vars

Called(call) == \E i \in 1..Len(ask.log) : ask.log[i].call = call

\* the question is None, empty, or made of blanks only
BlankQuestion ==
    ~ask.question.some \/ \A i \in 1..Len(ask.question.s) : ask.question.s[i] \in Whitespace

\* C6: a call of ask whose question is None, empty or blank ends at once with
\* answer "", no sources and a usage holding the key "error", and the embedder,
\* the vector store, the reranker and the chat model are never called in it.
C6_EmptyQuestion ==
    (ask.path = "ask" /\ BlankQuestion) =>
        /\ ask.log = <<>>
        /\ pc \in {"CALLED", "EMPTY_QUESTION"}
        /\ pc = "EMPTY_QUESTION" =>
              /\ ask.returned
              /\ ask.response.answer = [text |-> <<>>, lines |-> <<>>]
              /\ ask.response.sources = <<>>
              /\ "error" \in DOMAIN ask.response.usage

\* a blank, non-empty question, answered
C6_Witness ==
    /\ pc = "EMPTY_QUESTION"
    /\ ask.question.some /\ ask.question.s # <<>>
    /\ ask.returned

\* hit preparation has run in this request
PreparedDone ==
    \/ pc \in {"NO_HITS", "PREPARED", "ANSWERED"}
    \/ pc = "FAILED" /\ Called("chat")

\* C7: once hit preparation has returned the empty list, the request is in
\* NO_HITS with the fixed fallback message, no sources and usage retrieved = 0,
\* and the chat model has not been called; NO_HITS is entered in no other way.
C7_ZeroRetrieval ==
    /\ (PreparedDone /\ processed = <<>>) =>
          /\ pc = "NO_HITS"
          /\ ask.returned
          /\ ask.response.answer = [text |-> FallbackMessage, lines |-> <<>>]
          /\ ask.response.sources = <<>>
          /\ ask.response.usage = ("retrieved" :> "0")
          /\ ~Called("chat")
    /\ pc = "NO_HITS" => processed = <<>>

\* the store returned hits and the filters rejected every one of them
C7_Witness ==
    /\ pc = "NO_HITS"
    /\ ask.store_hits # <<>>
    /\ \A i \in 1..Len(ask.store_hits) : ask.store_hits[i].id # NoId

Upstream == {"embedder", "store", "llm"}

\* C8: after reranker.rerank raised, the request has not failed on that account:
\* it stands before hit preparation or past it, on its way to NO_HITS or ANSWERED
\* (it fails only if the chat model raises), and hit preparation runs on the
\* hits in the order the vector store returned them;
\* the retrieval runnable returns the documents in the retriever's order, with
\* the retriever's scores.
C8_RerankAbsorbed ==
    /\ (ask.path = "ask" /\ "reranker" \in ask.raised) =>
          /\ pc \in {"RERANKED", "PREPARED", "NO_HITS", "ANSWERED", "FAILED",
                      "ENTRIES"}
          /\ pc = "FAILED" => "llm" \in ask.raised
          /\ hits = ask.store_hits
          /\ pc # "RERANKED" =>
                processed = prepare_hits(ask.store_hits, store, settings, Bound(ask.k))
    /\ (pc = "LC_DONE" /\ ask.raised # {}) =>
          /\ Len(fout.docs) = Len(results)
          /\ \A i \in 1..Len(results) :
                /\ fout.docs[i].metadata.id = results[i].metadata.id
                /\ fout.docs[i].metadata.score = results[i].metadata.score

\* the reranker raised on two hits and the request was answered all the same
C8_Witness ==
    /\ pc = "ANSWERED"
    /\ "reranker" \in ask.raised
    /\ Len(ask.store_hits) >= 2
    /\ processed # <<>>

----------------------------------------------------------------------------
(* SpecCache: threads calling get_meta_map / get_metadata / query on one    *)
(* freshly constructed FaissStoreAdapter (app/adapters/vector_faiss.py).    *)
(* meta.ref is self._meta (0 for None, else the dict it refers to) and      *)
(* meta.heap the dicts allocated so far; a thread runs _load_meta one       *)
(* statement at a time and then reads the dict it was handed.              *)

NumThreads == 2

\* the lines of the chunks file: two records and a line whose record has no id
FileLines == <<Chunks[c11], EmptyRec, Chunks[c12]>>

CacheOps ==
    {[op |-> "get_meta_map", arg |-> NoId]}
    \cup {[op |-> o, arg |-> c] : o \in {"get_metadata", "query"}, c \in {c11, c12}}

\* line 30: self._meta = None
NoMeta == [ref |-> 0, heap |-> <<>>]

ThreadStart(call) ==
    [pc |-> "check", op |-> call.op, arg |-> call.arg, line |-> 1, ret |-> 0,
     seen |-> EmptyMap]

InitCache ==
    /\ pc = "threads"
    /\ meta = NoMeta
    /\ thr \in [1..NumThreads -> {ThreadStart(call) : call \in CacheOps}]
    /\ hits = <<>>
    /\ settings = IdleSettings
    /\ limit = NoLimit
    /\ store = IdleStore
    /\ lookup = EmptyMap
    /\ idx = 1
    /\ per_doc_counts = [d \in {} |-> 0]
    /\ processed = <<>>
    /\ kept = <<>>
    /\ results = <<>>
    /\ args = IdleArgs
    /\ fout = <<>>
    /\ ask = IdleAsk

\* line 34: if self._meta is None
CacheCheck(t) ==
    /\ thr[t].pc = "check"
    /\ thr' = [thr EXCEPT ![t].pc = IF meta.ref = 0 THEN "alloc" ELSE "return"]
    /\ UNCHANGED <<meta, pc, hits, settings, limit, store, lookup, idx, per_doc_counts,
                   processed, kept, results, args, fout, ask>>

\* line 35: self._meta = {}
CacheAlloc(t) ==
    /\ thr[t].pc = "alloc"
    /\ meta' = [ref |-> Len(meta.heap) + 1, heap |-> Append(meta.heap, EmptyMap)]
    /\ thr' = [thr EXCEPT ![t].pc = "load"]
    /\ UNCHANGED <<pc, hits, settings, limit, store, lookup, idx, per_doc_counts,
                   processed, kept, results, args, fout, ask>>

\* lines 37-43: one pass of the loop over the file's lines; self._meta[cid] = rec
\* stores into the dict self._meta refers to when the statement runs
CacheInsert(t) ==
    /\ thr[t].pc = "load"
    /\ thr[t].line <= Len(FileLines)
    /\ LET rec == FileLines[thr[t].line]
       IN meta' = IF rec.id = NoId THEN meta
                  ELSE [meta EXCEPT !.heap[meta.ref] = (rec.id :> rec) @@ @]
    /\ thr' = [thr EXCEPT ![t].line = @ + 1,
                          ![t].pc = IF thr[t].line + 1 > Len(FileLines)
                                    THEN "return" ELSE "load"]
    /\ UNCHANGED <<pc, hits, settings, limit, store, lookup, idx, per_doc_counts,
                   processed, kept, results, args, fout, ask>>

\* line 44: return self._meta
CacheReturn(t) ==
    /\ thr[t].pc = "return"
    /\ thr' = [thr EXCEPT ![t].ret = meta.ref, ![t].pc = "use"]
    /\ UNCHANGED <<meta, pc, hits, settings, limit, store, lookup, idx, per_doc_counts,
                   processed, kept, results, args, fout, ask>>

\* the caller reads the dict it was handed: all of it after get_meta_map (as
\* prepare_hits copies it), the entry of one id in get_metadata (line 52) and in
\* query (line 73)
CacheUse(t) ==
    /\ thr[t].pc = "use"
    /\ LET d == meta.heap[thr[t].ret]
           looked == IF thr[t].op = "get_meta_map" THEN DOMAIN d
                     ELSE {thr[t].arg} \cap DOMAIN d
       IN thr' = [thr EXCEPT ![t].seen = [c \in looked |-> d[c]], ![t].pc = "done"]
    /\ UNCHANGED <<meta, pc, hits, settings, limit, store, lookup, idx, per_doc_counts,
                   processed, kept, results, args, fout, ask>>

NextCache ==
    \E t \in 1..NumThreads :
        CacheCheck(t) \/ CacheAlloc(t) \/ CacheInsert(t) \/ CacheReturn(t) \/ CacheUse(t)

SpecCache == InitCache /\ [][NextCache]_vars

RECURSIVE RecordsOf(_)
\* all records of the chunks file, by id
RecordsOf(lines) ==
    IF lines = <<>> THEN EmptyMap
    ELSE IF Head(lines).id = NoId THEN RecordsOf(Tail(lines))
    ELSE RecordsOf(Tail(lines)) @@ (Head(lines).id :> Head(lines))

\* what a caller must have seen: the whole map, or the record of the id it asked for
MustSee(t) ==
    IF thr[t].op = "get_meta_map" THEN RecordsOf(FileLines)
    ELSE [c \in {thr[t].arg} \cap DOMAIN RecordsOf(FileLines) |-> RecordsOf(FileLines)[c]]

\* C10: whatever the interleaving, a caller that has read the metadata it was
\* handed has seen all records of the chunks file (the whole map, or the record
\* of the id it looked up); none has seen a partially populated map.
C10_NoTornRead ==
    \A t \in 1..NumThreads : thr[t].pc = "done" => thr[t].seen = MustSee(t)

----------------------------------------------------------------------------
(* SpecNeighbors: neighbor_ids of rag/retrieval/utils.py and of             *)
(* scripts/query_faiss.py applied to one chunk id and one radius           *)

MaxRadius == 3

\* what follows the first "_chunk" of an id: canonical, short, signed, blank
\* padded, grouped, empty, not a number, beyond four digits
TailPool ==
    {<<"0", "0", "0", "5">>, <<"0", "0", "0", "1">>, <<"5">>, <<"-", "2">>, <<"+", "3">>,
     <<" ", "7">>, <<"1", "_", "0">>, <<>>, <<"x">>, <<"1", "2", "a">>, <<"1", "_">>,
     <<"9", "9", "9", "9">>}

\* ids with the marker, and ids without it (partition leaves an empty tail)
IdPool ==
    {[base |-> b, marker |-> TRUE, tail |-> tl] : b \in {"doc", "d1"}, tl \in TailPool}
    \cup {[base |-> b, marker |-> FALSE, tail |-> <<>>] : b \in {"doc", "d1"}}

InitNeighbors ==
    /\ pc = "start"
    /\ args \in [chunk_id : IdPool, neighbors : (0 - 1)..MaxRadius]
    /\ fout = <<>>
    /\ hits = <<>>
    /\ settings = IdleSettings
    /\ limit = NoLimit
    /\ store = IdleStore
    /\ lookup = EmptyMap
    /\ idx = 1
    /\ per_doc_counts = [d \in {} |-> 0]
    /\ processed = <<>>
    /\ kept = <<>>
    /\ results = <<>>
    /\ ask = IdleAsk
    /\ meta = EmptyMap
    /\ thr = IdleThr

\* utils.py neighbor_ids(chunk_id, neighbors)
ApplyNeighborIds ==
    /\ pc = "start"
    /\ fout' = [ids |-> neighbor_ids(args.chunk_id, args.neighbors)]
    /\ pc' = "neighbor_ids"
    /\ UNCHANGED <<hits, settings, limit, store, lookup, idx, per_doc_counts, processed,
                   kept, results, args, ask, meta, thr>>

\* query_faiss.py neighbor_ids(cid, neighbors)
ApplyCliNeighborIds ==
    /\ pc = "start"
    /\ fout' = [ids |-> cli_neighbor_ids(args.chunk_id, args.neighbors)]
    /\ pc' = "cli_neighbor_ids"
    /\ UNCHANGED <<hits, settings, limit, store, lookup, idx, per_doc_counts, processed,
                   kept, results, args, ask, meta, thr>>

NextNeighbors == ApplyNeighborIds \/ ApplyCliNeighborIds

SpecNeighbors == InitNeighbors /\ [][NextNeighbors]_vars

\* the suffix is a number: the id has the marker and what follows it parses
NumericSuffix(cid) == cid.marker /\ IsInt(cid.tail)

\* a sequence number written on four digits: zero-padded when it has fewer, the
\* sign counted in the width
FourDigits(tl, j) ==
    /\ IsInt(tl) /\ ParseInt(tl) = j
    /\ Len(tl) >= 4
    /\ \A i \in 1..Len(tl) : IsDigit(tl[i]) \/ (i = 1 /\ tl[i] = "-")
    /\ Len(tl) > 4 => tl[1] # "0"

\* C11: the result is [chunk_id] when the radius is <= 0, the id has no _chunk
\* marker or its suffix is no number; otherwise it is the 2*radius+1 ids
\* <prefix>_chunk<NNNN> of the sequence numbers n-radius .. n+radius, ascending,
\* whether they exist or not; neighbor_ids("doc_chunk0005", 2) is
\* doc_chunk0003 .. doc_chunk0007.  For both copies of neighbor_ids.
C11_NeighborIdsReference ==
    pc \in {"neighbor_ids", "cli_neighbor_ids"} =>
        LET cid == args.chunk_id
            r == args.neighbors
        IN IF r <= 0 \/ ~NumericSuffix(cid)
           THEN fout.ids = <<cid>>
           ELSE /\ Len(fout.ids) = 2 * r + 1
                /\ \A k \in 1..Len(fout.ids) :
                      /\ fout.ids[k].base = cid.base
                      /\ fout.ids[k].marker
                      /\ FourDigits(fout.ids[k].tail, ParseInt(cid.tail) - r + k - 1)
                /\ (cid = ChunkId("doc", 5) /\ r = 2) =>
                      fout.ids = <<ChunkId("doc", 3), ChunkId("doc", 4), ChunkId("doc", 5),
                                   ChunkId("doc", 6), ChunkId("doc", 7)>>

\* neighbor_ids("doc_chunk0005", 2) has returned its five ids
C11_Witness ==
    /\ pc = "neighbor_ids"
    /\ args.chunk_id = [base |-> "doc", marker |-> TRUE, tail |-> <<"0", "0", "0", "5">>]
    /\ args.neighbors = 2
    /\ Len(fout.ids) = 5
    /\ fout.ids[1].tail = <<"0", "0", "0", "3">>
    /\ fout.ids[5].tail = <<"0", "0", "0", "7">>

----------------------------------------------------------------------------
(* The chunker (rag/segment/chunker.py).  A text is a sequence of symbols,  *)
(* each with its position in the text: "w" a word, "S" the blank between   *)
(* two sentences, "P" a paragraph break, "B" the page break marker.  The   *)
(* tokenizer makes one token of a word and one of the marker, and none of  *)
(* the blanks; a token is the position of its symbol, so that the tokens   *)
(* of one text are all distinct.  decode turns tokens back into words.     *)

MaxDocLen == 4

MaxTokens == 3

Sym(sym, pos) == [sym |-> sym, pos |-> pos]

\* the text written with the symbols syms
TextOfSyms(syms) == [i \in 1..Len(syms) |-> Sym(syms[i], i)]

\* encode(text)
encode(text) ==
    LET toks == SelectSeq(text, LAMBDA x : x.sym \in {"w", "B"})
    IN [i \in 1..Len(toks) |-> toks[i].pos]

\* decode(tokens)
decode(tokens) == [i \in 1..Len(tokens) |-> Sym("w", tokens[i])]

RECURSIVE SplitOn(_, _)
\* re.split on a separator symbol: the pieces between its occurrences
SplitOn(text, sep) ==
    IF \A i \in 1..Len(text) : text[i].sym # sep THEN <<text>>
    ELSE LET c == CHOOSE i \in 1..Len(text) :
                     text[i].sym = sep /\ \A j \in 1..(i - 1) : text[j].sym # sep
         IN <<SubSeq(text, 1, c - 1)>> \o SplitOn(SubSeq(text, c + 1, Len(text)), sep)

\* s.strip() on a text: blanks and breaks at both ends removed
StripText(text) ==
    LET keep == {i \in 1..Len(text) : text[i].sym \in {"w", "B"}}
    IN IF keep = {} THEN <<>>
       ELSE SubSeq(text, CHOOSE i \in keep : \A j \in keep : i <= j,
                         CHOOSE i \in keep : \A j \in keep : j <= i)

\* [p.strip() for p in pieces if p.strip()]
StripAll(pieces) ==
    SelectSeq([i \in 1..Len(pieces) |-> StripText(pieces[i])], LAMBDA x : x # <<>>)

\* line 35
split_pages(text) == SplitOn(text, "B")

\* line 38
paragraphs(page_text) == StripAll(SplitOn(page_text, "P"))

\* lines 48-71: the sentences of a paragraph, or the paragraph when there is
\* none (a table paragraph is kept whole: one block, like a long sentence)
split_para_into_blocks(para) ==
    LET parts == StripAll(SplitOn(para, "S"))
    IN IF parts # <<>> THEN parts ELSE <<para>>

RECURSIVE Flatten(_)
Flatten(lists) == IF lists = <<>> THEN <<>> ELSE Head(lists) \o Flatten(Tail(lists))

\* lines 73-77
blocks_for_page(page_text) ==
    LET paras == paragraphs(page_text)
    IN Flatten([i \in 1..Len(paras) |-> split_para_into_blocks(paras[i])])

NoPage == [some |-> FALSE, v |-> 0]

Page(n) == [some |-> TRUE, v |-> n]

\* lines 87-91
PackStart ==
    [out |-> <<>>, cur_tokens |-> <<>>, chunk_first_page |-> 0,
     cur_page_seen |-> NoPage, last_chunk_tokens |-> <<>>, has_last |-> FALSE]

PackedChunk(tokens, ps, pe) == [text |-> decode(tokens), page_start |-> ps, page_end |-> pe]

OverlapTailWide(last, overlap) ==
    IF overlap >= 0
    THEN IF Len(last) > overlap + 1 THEN SubSeq(last, Len(last) - overlap, Len(last))
         ELSE last
    ELSE SubSeq(last, (0 - overlap) + 1, Len(last))

\* line 108: last_chunk_tokens[-overlap:] if len(last_chunk_tokens) > overlap
\* else last_chunk_tokens (for a negative overlap the slice drops from the front)
OverlapTail(last, overlap) ==
    IF overlap >= 0
    THEN IF Len(last) > overlap THEN SubSeq(last, Len(last) - overlap + 1, Len(last))
         ELSE last
    ELSE SubSeq(last, (0 - overlap) + 1, Len(last))

\* lines 95-113: the loop body on one block of page pg_idx
PackBlock(st, blk, pg_idx, max_tokens, overlap) ==
    LET t == encode(blk)
        first == IF st.cur_tokens = <<>> THEN pg_idx ELSE st.chunk_first_page
    IN IF Len(st.cur_tokens) + Len(t) <= max_tokens
       THEN [st EXCEPT !.cur_tokens = @ \o t, !.chunk_first_page = first,
                       !.cur_page_seen = Page(pg_idx)]
       ELSE LET emitted == st.cur_tokens # <<>>
                out == IF emitted
                       THEN Append(st.out,
                                   PackedChunk(st.cur_tokens, first,
                                               IF st.cur_page_seen.some
                                               THEN st.cur_page_seen.v ELSE pg_idx))
                       ELSE st.out
                last == IF emitted THEN st.cur_tokens ELSE st.last_chunk_tokens
                has_last == emitted \/ st.has_last
            IN [out |-> out,
                cur_tokens |-> IF overlap # 0 /\ has_last /\ last # <<>>
                               THEN OverlapTail(last, overlap) \o t ELSE t,
                chunk_first_page |-> pg_idx,
                cur_page_seen |-> Page(pg_idx),
                last_chunk_tokens |-> last,
                has_last |-> has_last]

RECURSIVE PackLoop(_, _, _, _, _, _)
\* lines 93-94: for pg_idx, blocks in enumerate(pages): for blk in blocks
PackLoop(st, pages, pg, b, max_tokens, overlap) ==
    IF pg > Len(pages) THEN st
    ELSE IF b > Len(pages[pg]) THEN PackLoop(st, pages, pg + 1, 1, max_tokens, overlap)
    ELSE PackLoop(PackBlock(st, pages[pg][b], pg - 1, max_tokens, overlap),
                  pages, pg, b + 1, max_tokens, overlap)

\* lines 79-119
pack_blocks_with_overlap(pages, max_tokens, overlap) ==
    LET st == PackLoop(PackStart, pages, 1, 1, max_tokens, overlap)
    IN IF st.cur_tokens # <<>>
       THEN Append(st.out,
                   PackedChunk(st.cur_tokens, st.chunk_first_page,
                               IF st.cur_page_seen.some THEN st.cur_page_seen.v
                               ELSE st.chunk_first_page))
       ELSE st.out

\* lines 139-150
chunk_text(text, max_tokens, overlap) ==
    LET page_texts == split_pages(text)
        page_blocks == [i \in 1..Len(page_texts) |-> blocks_for_page(page_texts[i])]
    IN pack_blocks_with_overlap(page_blocks, max_tokens, overlap)

ChunkIndexFromZero(i) == i - 1

\* line 166: enumerate(chunks, 1)
ChunkIndex(i) == i

\* lines 152-191 (the source hints, the character count and the carried meta
\* of a chunk are left out)
chunk_record(rec, max_tokens, overlap) ==
    LET chunks == chunk_text(rec.text, max_tokens, overlap)
    IN [i \in 1..Len(chunks) |->
           [id |-> ChunkId(rec.id, ChunkIndex(i)),
            doc_id |-> rec.id,
            chunk_index |-> ChunkIndex(i),
            text |-> chunks[i].text,
            n_tokens |-> Len(encode(chunks[i].text)),
            page_start |-> chunks[i].page_start,
            page_end |-> chunks[i].page_end]]

----------------------------------------------------------------------------
(* SpecChunk: chunk_text on one document text, or chunk_stream over two     *)
(* document records, with given max_tokens and overlap                     *)

SymSeqs == UNION {[1..n -> {"w", "S", "P", "B"}] : n \in 0..MaxDocLen}

DocTexts == {TextOfSyms(syms) : syms \in SymSeqs}

\* the second record of a stream: two sentences, or two pages
SecondTexts == {TextOfSyms(<<"w", "S", "w">>), TextOfSyms(<<"w", "w", "B", "w">>)}

RecordStreams ==
    {<<[id |-> "d1", text |-> t1], [id |-> "d2", text |-> t2]>> :
        t1 \in DocTexts, t2 \in SecondTexts}

\* chunk_text and _pack_blocks_with_overlap hold no check of max_tokens or
\* overlap and no raise statement
chunker_raises(max_tokens, overlap) == FALSE

InitChunk ==
    /\ pc = "start"
    /\ args \in [records : RecordStreams, max_tokens : 0..MaxTokens,
                 overlap : (0 - 1)..MaxTokens]
    /\ results = <<>>
    /\ idx = 1
    /\ fout = <<>>
    /\ hits = <<>>
    /\ settings = IdleSettings
    /\ limit = NoLimit
    /\ store = IdleStore
    /\ lookup = EmptyMap
    /\ per_doc_counts = [d \in {} |-> 0]
    /\ processed = <<>>
    /\ kept = <<>>
    /\ ask = IdleAsk
    /\ meta = EmptyMap
    /\ thr = IdleThr

\* chunk_text(text, max_tokens, overlap) on the first record's text
ChunkText ==
    /\ pc = "start"
    /\ fout' = [raised |-> chunker_raises(args.max_tokens, args.overlap),
                chunks |-> chunk_text(args.records[1].text, args.max_tokens,
                                      args.overlap)]
    /\ pc' = "chunk_text"
    /\ UNCHANGED <<hits, settings, limit, store, lookup, idx, per_doc_counts, processed,
                   kept, results, args, ask, meta, thr>>

\* chunk_stream lines 198-200: the chunks of the next record are yielded
ChunkStreamStep ==
    /\ pc \in {"start", "streaming"}
    /\ idx <= Len(args.records)
    /\ results' = results \o chunk_record(args.records[idx], args.max_tokens,
                                          args.overlap)
    /\ fout' = [raised |-> chunker_raises(args.max_tokens, args.overlap),
                chunks |-> <<>>]
    /\ idx' = idx + 1
    /\ pc' = IF idx + 1 > Len(args.records) THEN "streamed" ELSE "streaming"
    /\ UNCHANGED <<hits, settings, limit, store, lookup, per_doc_counts, processed,
                   kept, args, ask, meta, thr>>

NextChunk == ChunkText \/ ChunkStreamStep

SpecChunk == InitChunk /\ [][NextChunk]_vars

ValidChunkParams ==
    args.max_tokens > 0 /\ 0 <= args.overlap /\ args.overlap < args.max_tokens

\* the token lists of the chunks chunk_text returned
ChunkTokens == [i \in 1..Len(fout.chunks) |-> encode(fout.chunks[i].text)]

\* C12: with valid (max_tokens, overlap), every chunk chunk_text returns and
\* every chunk record chunk_stream yields has 0 < n_tokens <= max_tokens.
C12_ChunkSizeBound ==
    ValidChunkParams =>
        /\ pc = "chunk_text" =>
              \A i \in 1..Len(ChunkTokens) :
                  0 < Len(ChunkTokens[i]) /\ Len(ChunkTokens[i]) <= args.max_tokens
        /\ \A i \in 1..Len(results) :
              0 < results[i].n_tokens /\ results[i].n_tokens <= args.max_tokens

\* a chunk without the tokens it repeats from the chunk before it
FreshTokens(toks, i) ==
    IF i = 1 THEN toks[1]
    ELSE SelectSeq(toks[i], LAMBDA t : \A j \in 1..Len(toks[i - 1]) : toks[i - 1][j] # t)

\* C13: with valid (max_tokens, overlap), the chunks of chunk_text in order,
\* each without the tokens it repeats from the previous chunk, are the tokens
\* of the document, each once and in order.
C13_ChunkCoverage ==
    (pc = "chunk_text" /\ ValidChunkParams) =>
        Flatten([i \in 1..Len(ChunkTokens) |-> FreshTokens(ChunkTokens, i)])
            = encode(args.records[1].text)

\* the tokens two token lists have in common
SharedTokens(a, b) == {a[i] : i \in 1..Len(a)} \cap {b[i] : i \in 1..Len(b)}

\* the tokens b shares with a are the last tokens of a and the first of b, and
\* there are at most overlap of them
OverlapWithin(a, b, overlap) ==
    LET n == Cardinality(SharedTokens(a, b))
    IN /\ n <= overlap
       /\ SubSeq(a, Len(a) - n + 1, Len(a)) = SubSeq(b, 1, n)

\* C14: with valid (max_tokens, overlap), two consecutive chunks of one
\* document share at most overlap tokens, a suffix of the first and the prefix
\* of the second; none when overlap = 0.
C14_OverlapBound ==
    ValidChunkParams =>
        /\ pc = "chunk_text" =>
              \A i \in 1..(Len(ChunkTokens) - 1) :
                  OverlapWithin(ChunkTokens[i], ChunkTokens[i + 1], args.overlap)
        /\ \A i \in 1..(Len(results) - 1) :
              results[i].doc_id = results[i + 1].doc_id =>
                  OverlapWithin(encode(results[i].text), encode(results[i + 1].text),
                                args.overlap)

\* two consecutive chunks that share exactly overlap >= 1 tokens, the first
\* longer than the overlap
C14_Witness ==
    /\ pc = "chunk_text"
    /\ ValidChunkParams
    /\ args.overlap >= 1
    /\ \E i \in 1..(Len(ChunkTokens) - 1) :
          /\ Cardinality(SharedTokens(ChunkTokens[i], ChunkTokens[i + 1])) = args.overlap
          /\ Len(ChunkTokens[i]) > args.overlap

\* C15: when max_tokens <= 0, overlap < 0 or overlap >= max_tokens, chunk_text
\* (and chunk_stream through it) fails with a validation error and gives no chunk.
C15_ParamValidation ==
    (pc # "start" /\ ~ValidChunkParams) =>
        /\ fout.raised
        /\ fout.chunks = <<>>
        /\ results = <<>>

\* the chunk records yielded so far for the document doc, in order
ChunksOfDoc(doc) == SelectSeq(results, LAMBDA c : c.doc_id = doc)

\* C16: the chunks yielded for a record with id D have ids D_chunk0001,
\* D_chunk0002, ... in order without gap or repeat, doc_id D and chunk_index the
\* number their id ends with; all ids yielded by the stream are distinct.
C16_ChunkIdScheme ==
    /\ \A r \in 1..Len(args.records) :
          LET d == args.records[r].id
              cs == ChunksOfDoc(d)
          IN \A i \in 1..Len(cs) :
                /\ cs[i].chunk_index = i
                /\ cs[i].id.base = d /\ cs[i].id.marker
                /\ FourDigits(cs[i].id.tail, i)
    /\ \A i \in 1..Len(results) :
          \E r \in 1..Len(args.records) : results[i].doc_id = args.records[r].id
    /\ \A i, j \in 1..Len(results) : i # j => results[i].id # results[j].id

\* a finished stream with two chunks of the first record and one of the second
C16_Witness ==
    /\ pc = "streamed"
    /\ Len(ChunksOfDoc("d1")) >= 2
    /\ Len(ChunksOfDoc("d2")) >= 1
    /\ results[2].id = ChunkId("d1", 2)

----------------------------------------------------------------------------
(* SpecSettings: resolve_retrieval_settings on one raw payload, then on the *)
(* field dict of the record it returned                                    *)

NumericFields ==
    {"year_min", "year_max", "neighbors", "per_doc", "max_preview_chars",
     "max_snippet_chars"}

\* raw values of a numeric field: missing, integers below and above the
\* minimums, strings (empty, numbers, blank padded, no number), floats finite
\* and not, a list
RawPool ==
    {NoYear, IntYear(0 - 3), IntYear(0), IntYear(110), IntYear(2021), StrYear(<<>>),
     StrYear(<<"7">>), StrYear(<<" ", "1", "2", " ">>), StrYear(<<"x">>), FloatYear(2),
     NanYear, InfYear, ListYear}

\* raw keyword filters: missing, strings with blanks, empty pieces and
\* repeats, lists (an entry stands for its str()), another type
ContainsPool ==
    {NoContains, OtherContains, StrContains(<<"x", ",", " ">>),
     StrContains(<<" ", "A", ",", "a", ",", ",", "b">>),
     ListContains(<<<<"B">>, <<" ", "b">>, <<"5">>>>), ListContains(<<<<" ">>>>)}

\* payloads: one numeric field and the keyword filter set, the rest missing
\* (filters = None resolves as the payload with everything missing)
PayloadPool ==
    {[[NoFilters EXCEPT ![f] = r] EXCEPT !.contains = c] :
        f \in NumericFields, r \in RawPool, c \in ContainsPool}

\* dataclass __dict__ of a RetrievalSettings, as a raw payload
SettingsDict(stg) ==
    LET opt(b) == IF b.some THEN IntYear(b.v) ELSE NoYear
    IN [contains |-> ListContains(stg.contains),
        year_min |-> opt(stg.year_min),
        year_max |-> opt(stg.year_max),
        neighbors |-> IntYear(stg.neighbors),
        per_doc |-> IntYear(stg.per_doc),
        max_preview_chars |-> IntYear(stg.max_preview_chars),
        max_snippet_chars |-> IntYear(stg.max_snippet_chars)]

InitSettings ==
    /\ pc = "start"
    /\ args \in [filters : PayloadPool]
    /\ settings = IdleSettings
    /\ fout = <<>>
    /\ hits = <<>>
    /\ limit = NoLimit
    /\ store = IdleStore
    /\ lookup = EmptyMap
    /\ idx = 1
    /\ per_doc_counts = [d \in {} |-> 0]
    /\ processed = <<>>
    /\ kept = <<>>
    /\ results = <<>>
    /\ ask = IdleAsk
    /\ meta = EmptyMap
    /\ thr = IdleThr

\* resolve_retrieval_settings(filters): it returns a record or raises
Resolve ==
    /\ pc = "start"
    /\ IF resolve_raises(args.filters)
       THEN /\ pc' = "raised"
            /\ settings' = settings
       ELSE /\ pc' = "resolved"
            /\ settings' = resolve_retrieval_settings(args.filters)
    /\ UNCHANGED <<hits, limit, store, lookup, idx, per_doc_counts, processed, kept,
                   results, args, fout, ask, meta, thr>>

\* resolve_retrieval_settings(settings.__dict__)
ResolveAgain ==
    /\ pc = "resolved"
    /\ IF resolve_raises(SettingsDict(settings))
       THEN /\ pc' = "raised_again"
            /\ fout' = fout
       ELSE /\ pc' = "resolved_again"
            /\ fout' = [settings |-> resolve_retrieval_settings(SettingsDict(settings))]
    /\ UNCHANGED <<hits, settings, limit, store, lookup, idx, per_doc_counts, processed,
                   kept, results, args, ask, meta, thr>>

NextSettings == Resolve \/ ResolveAgain

SpecSettings == InitSettings /\ [][NextSettings]_vars

\* C17: for every raw payload, resolve_retrieval_settings returns a record with
\* neighbors >= 0, per_doc >= 1, max_preview_chars >= 100, max_snippet_chars >=
\* 120 (the defaults 1, 2, 1800, 500 when the field is missing) and year_min,
\* year_max an integer or None.
C17_SettingsClamped ==
    pc # "start" =>
        /\ pc # "raised"
        /\ settings.neighbors >= 0
        /\ settings.per_doc >= 1
        /\ settings.max_preview_chars >= 100
        /\ settings.max_snippet_chars >= 120
        /\ settings.year_min \in [some : BOOLEAN, v : Int]
        /\ settings.year_max \in [some : BOOLEAN, v : Int]
        /\ args.filters.neighbors = NoYear => settings.neighbors = 1
        /\ args.filters.per_doc = NoYear => settings.per_doc = 2
        /\ args.filters.max_preview_chars = NoYear => settings.max_preview_chars = 1800
        /\ args.filters.max_snippet_chars = NoYear => settings.max_snippet_chars = 500

\* the raw value is malformed: a string that is no number, a non-finite float,
\* a value of another type
Malformed(raw) ==
    \/ raw.k \in {"nan", "inf", "list"}
    \/ raw.k = "str" /\ raw.s # <<>> /\ ~IsInt(raw.s)

\* the value resolve_retrieval_settings substitutes for a malformed field
DefaultOf(f) ==
    IF f = "neighbors" THEN Bound(1)
    ELSE IF f = "per_doc" THEN Bound(2)
    ELSE IF f = "max_preview_chars" THEN Bound(1800)
    ELSE IF f = "max_snippet_chars" THEN Bound(500)
    ELSE NoBound

\* the resolved value of a field, as an optional integer
Resolved(f) ==
    IF f \in {"year_min", "year_max"} THEN settings[f] ELSE Bound(settings[f])

\* C18: resolve_retrieval_settings never raises, whatever the payload, and
\* every malformed field (unparseable, wrong-typed, non-finite) comes out as
\* its default.
C18_ResolveTotal ==
    pc # "start" =>
        /\ pc \notin {"raised", "raised_again"}
        /\ \A f \in NumericFields :
              Malformed(args.filters[f]) => Resolved(f) = DefaultOf(f)

\* C19: resolving the field dict of a resolved record gives that record again:
\* the same keywords in the same order, the same bounds and numeric fields.
C19_ResolveIdempotent ==
    /\ pc # "raised_again"
    /\ pc = "resolved_again" => fout.settings = settings

\* a payload with repeated, padded keywords and a value below its minimum,
\* resolved twice
C19_Witness ==
    /\ pc = "resolved_again"
    /\ Len(settings.contains) >= 2
    /\ args.filters.contains.k = "str"
    /\ args.filters.max_preview_chars = IntYear(0)
    /\ settings.max_preview_chars = 100

----------------------------------------------------------------------------
(* stitch_preview: the length bound, over SpecStitch *)

\* ids of the neighbour window, in the order the loop visits them, whose record
\* is in the lookup, belongs to the centre's document and has text left after
\* cleaning (strip is TRUE for utils.py, FALSE for the CLI)
EligibleIds(strip) ==
    SelectSeq(neighbor_ids(args.rec.id, settings.neighbors),
              LAMBDA nid :
                 /\ nid \in DOMAIN lookup
                 /\ DocOf(lookup[nid], nid) = CenterDoc
                 /\ (IF strip THEN Strip(ReplaceNewlines(lookup[nid].text))
                     ELSE ReplaceNewlines(lookup[nid].text)) # <<>>)

EligibleTexts(strip) ==
    [i \in 1..Len(EligibleIds(strip)) |->
        IF strip THEN Strip(ReplaceNewlines(lookup[EligibleIds(strip)[i]].text))
        ELSE ReplaceNewlines(lookup[EligibleIds(strip)[i]].text)]

\* the numbers of the ids are ascending
Ascending(ids) ==
    \A i \in 1..(Len(ids) - 1) : ParseInt(ids[i].tail) < ParseInt(ids[i + 1].tail)

RECURSIVE SumLen(_)
SumLen(parts) == IF parts = <<>> THEN 0 ELSE Len(parts[1]) + SumLen(Tail(parts))

\* parts is texts cut where the budget of max_chars characters runs out: whole
\* texts in order, the last one possibly cut, and nothing after the budget is
\* spent
CutAtBudget(parts, texts, max_chars) ==
    /\ Len(parts) <= Len(texts)
    /\ SumLen(parts) <= max_chars
    /\ \A i \in 1..Len(parts) :
          IF i < Len(parts) THEN parts[i] = texts[i]
          ELSE parts[i] = Take(texts[i], Len(parts[i])) /\ parts[i] # <<>>
    /\ (Len(parts) < Len(texts) \/ (parts # <<>> /\ parts[Len(parts)] # texts[Len(parts)]))
          => SumLen(parts) = max_chars

\* C20: when no_truncate is unset, the result of stitch_preview (utils.py and
\* the CLI) is at most max_chars long, separators and the fallback to the
\* centre's own text included; the texts joined are those of the window in
\* ascending id order, and no text is added once max_chars characters are taken.
C20_StitchLengthBound ==
    /\ (pc = "stitched" /\ ~args.no_truncate) =>
          /\ Len(fout.text) <= settings.max_preview_chars
          /\ args.rec.id # NoId =>
                /\ Ascending(EligibleIds(TRUE))
                /\ CutAtBudget(StitchParts(neighbor_ids(args.rec.id, settings.neighbors),
                                           CenterDoc, lookup, settings.max_preview_chars,
                                           FALSE),
                               EligibleTexts(TRUE), settings.max_preview_chars)
                /\ EligibleTexts(TRUE) # <<>> =>
                      fout.text = Take(Join(EligibleTexts(TRUE), <<" ">>),
                                       settings.max_preview_chars)
    /\ (pc = "cli_stitched" /\ ~args.no_truncate) =>
          /\ Len(fout.text) <= settings.max_preview_chars
          /\ Ascending(EligibleIds(FALSE))
          /\ CutAtBudget(CliStitchParts(cli_neighbor_ids(args.rec.id, settings.neighbors),
                                        CenterDoc, lookup, settings.max_preview_chars,
                                        FALSE),
                         EligibleTexts(FALSE), settings.max_preview_chars)
          /\ EligibleTexts(FALSE) # <<>> =>
                fout.text = Take(Join(EligibleTexts(FALSE), <<" ">>),
                                 settings.max_preview_chars)

\* a preview of two texts whose characters fit the budget while the separator
\* between them does not, cut to exactly max_chars
C20_Witness ==
    /\ pc = "stitched"
    /\ ~args.no_truncate
    /\ Len(EligibleTexts(TRUE)) >= 2
    /\ Len(EligibleTexts(TRUE)[1]) < settings.max_preview_chars
    /\ Len(Join(EligibleTexts(TRUE), <<" ">>)) > settings.max_preview_chars
    /\ Len(fout.text) = settings.max_preview_chars

----------------------------------------------------------------------------
(* Citation labels, over SpecAsk *)

\* the labels S1 .. Sn in order
LabelsInOrder(entries) == \A i \in 1..Len(entries) : entries[i].sid = Sid(i)

NoRepeat(entries) ==
    \A i, j \in 1..Len(entries) : i # j => entries[i].sid # entries[j].sid

\* the prompt line and the citation at position i are both made of hit
LineAndCitationOf(line, cit, hit) ==
    /\ line.sid = cit.sid
    /\ line.title = hit.metadata.doc_id
    /\ line.year = hit.metadata.year
    /\ cit.doc_id = hit.metadata.doc_id
    /\ cit.year = hit.metadata.year
    /\ cit.url = hit.metadata.url
    /\ cit.score = hit.score
    /\ cit.snippet = SnippetText(hit.metadata)
    /\ \E n \in 0..Len(cit.snippet) :
          \E m \in 0..n : SubSeq(cit.snippet, m + 1, n) = SelectSeq(line.snippet, LAMBDA c : c # Ellipsis)

\* the prepared hits are in the order of the final ranking (hits after the
\* rerank stage)
InRankedOrder ==
    IsSubsequence([i \in 1..Len(processed) |-> processed[i].id],
                  [i \in 1..Len(hits) |-> HitChunkId(hits[i])])

\* C21: in a response with n prepared hits the citations carry S1 .. Sn in the
\* final ranked order, without gap or repeat, and the prompt line [Si] and the
\* citation Si are built from the i-th prepared hit; for QAPipeline.ask and
\* for build_prompt_entries.
C21_CitationLabels ==
    /\ pc = "ANSWERED" =>
          /\ Len(ask.response.sources) = Len(processed)
          /\ Len(ask.prompt) = Len(processed)
          /\ LabelsInOrder(ask.response.sources) /\ NoRepeat(ask.response.sources)
          /\ LabelsInOrder(ask.prompt)
          /\ InRankedOrder
          /\ \A i \in 1..Len(processed) :
                LineAndCitationOf(ask.prompt[i], ask.response.sources[i], processed[i])
    /\ pc = "ENTRIES" =>
          /\ Len(fout.citations) = Len(processed)
          /\ Len(fout.lines) = Len(processed)
          /\ LabelsInOrder(fout.citations) /\ NoRepeat(fout.citations)
          /\ LabelsInOrder(fout.lines)
          /\ \A i \in 1..Len(processed) :
                LineAndCitationOf(fout.lines[i], fout.citations[i], processed[i])

\* an answer citing two documents, after the reranker put the store's second
\* hit first
C21_Witness ==
    /\ pc = "ANSWERED"
    /\ Len(processed) = 2
    /\ processed[1].metadata.doc_id # processed[2].metadata.doc_id
    /\ Called("rerank")
    /\ processed[1].id = HitChunkId(ask.store_hits[2])
    /\ ask.response.sources[2].sid = <<"S", "2">>

----------------------------------------------------------------------------
(* The year filter as a closed range, over SpecFilters *)

\* y lies in the closed range of the bounds that are set
InClosedRange(y, lo, hi) == (lo.some => y >= lo.v) /\ (hi.some => y <= hi.v)

\* the range PortsRetriever.__init__ keeps for the configured pair
ConfiguredRange == PortsYearRange(settings.year_min, settings.year_max)

\* C22: a hit whose year parses to an integer y survives the year filter iff y
\* lies in the closed range of the bounds set (the keyword filter deciding the
\* rest); for passes_filters over year_min and year_max, and for PortsRetriever
\* over the range it keeps for its year_range.
C22_ClosedYearRange ==
    /\ (pc = "passes_filters" /\ ~YearUnparseable) =>
          (fout.ok <=>
              /\ KeywordPasses(args.rec)
              /\ InClosedRange(ToInt(args.rec.year).v, settings.year_min,
                               settings.year_max))
    /\ (pc = "ports_filters" /\ ~YearUnparseable) =>
          (fout.ok <=>
              /\ KeywordPasses(args.rec)
              /\ InClosedRange(ToInt(args.rec.year).v, ConfiguredRange.lo,
                               ConfiguredRange.hi))

\* a retriever with both bounds set keeps a hit whose year is the lower bound
C22_Witness ==
    /\ pc = "ports_filters"
    /\ settings.year_min = Bound(2021) /\ settings.year_max = Bound(2022)
    /\ args.rec.year = StrYear(Y2021)
    /\ fout.ok

----------------------------------------------------------------------------
(* Agreement of the call sites, over SpecFilters *)

\* what the shared path (prepare_hits, line 243) decides for the record
SharedVerdict ==
    passes_filters(args.rec, settings.contains, settings.year_min, settings.year_max)

\* C23: for the same record and the same settings (keywords, year bounds), the
\* CLI's own filter and the PortsRetriever filters keep the record iff the
\* shared prepare_hits path keeps it.
C23_CallSiteAgreement ==
    /\ pc = "cli_filters" => (fout.ok <=> SharedVerdict)
    /\ pc = "ports_filters" => (fout.ok <=> SharedVerdict)

----------------------------------------------------------------------------
(* SpecPorts: one call of PortsRetriever._get_relevant_documents            *)
(* (rag/langchain_adapters.py) on what search_raw returned                 *)

\* the store's records: chunk_index as the chunker writes it or absent, a
\* record without doc_id, one of another document under d1's ids, text with
\* blanks around it, a record with a preview and no text
PortsChunks ==
    (c11 :> [MkRec(c11, "d1", <<"a", " ", "b">>, IntYear(2020))
                EXCEPT !.chunk_index = Bound(1)])
    @@ (c12 :> MkRec(c12, "", <<" ", "A", "\n">>, StrYear(Y2021)))
    @@ (c13 :> MkRec(c13, "d2", <<"b", "\n", "b">>, NoYear))
    @@ (c21 :> MkRec(c21, "d2", <<"b">>, IntYear(2019)))
    @@ (c22 :> [MkRec(c22, "d2", <<>>, IntYear(2020))
                EXCEPT !.preview = <<"A", "b">>, !.chunk_index = Bound(2)])

PortsStores ==
    {[map |-> PortsChunks, bulk |-> TRUE, point |-> TRUE],
     [map |-> PortsChunks, bulk |-> FALSE, point |-> TRUE],
     [map |-> PortsChunks, bulk |-> FALSE, point |-> FALSE],
     [map |-> [c \in {c12, c13, c22} |-> PortsChunks[c]], bulk |-> TRUE, point |-> FALSE]}

PortsHitPool ==
    { MkHit(c12, NumScore(8), PortsChunks[c12]),
      MkHit(c11, NumScore(7), EmptyRec),
      MkHit(c22, NoScore, PortsChunks[c22]),
      MkHit(NoId, NumScore(5), EmptyRec),
      MkHit(c21, NumScore(4), EmptyRec) }

\* constructor arguments
PortsArgs ==
    [top_k : 0..2, neighbors : (0 - 1)..MaxNeighbors,
     contains : {<<>>, <<<<" ", "B">>, <<"b">>>>},
     year_range : {<<NoBound, NoBound>>, <<Bound(2020), NoBound>>,
                   <<Bound(2021), Bound(2020)>>},
     diversify_per_doc : BOOLEAN]

\* __init__, lines 49-77
PortsConfig(a) ==
    [top_k |-> Max(1, a.top_k),
     neighbors |-> Max(0, a.neighbors),
     contains |-> Dedupe(CleanKeywords(a.contains), {}),
     year_range |-> PortsYearRange(a.year_range[1], a.year_range[2]),
     diversify_per_doc |-> a.diversify_per_doc]

\* search_raw(question, top_k = top_k * 3): distinct hits, at most top_k * 3
InitPorts ==
    /\ pc = "start"
    /\ args \in PortsArgs
    /\ store \in PortsStores
    /\ hits \in UNION {{h \in [1..n -> PortsHitPool] :
                          \A i, j \in 1..n : i # j => h[i] # h[j]} : n \in 0..MaxHits}
    /\ Len(hits) <= 3 * PortsConfig(args).top_k
    /\ settings = IdleSettings
    /\ limit = NoLimit
    /\ lookup = EmptyMap
    /\ idx = 1
    /\ per_doc_counts = [d \in {} |-> 0]
    /\ processed = <<>>
    /\ kept = <<>>
    /\ results = <<>>
    /\ fout = <<>>
    /\ ask = IdleAsk
    /\ meta = EmptyMap
    /\ thr = IdleThr

\* _get_relevant_documents(query); kept records the position in raw_hits of
\* the hit each document was made of
GetRelevantDocuments ==
    /\ pc = "start"
    /\ \E r \in {ports_documents(hits, store, PortsConfig(args))} :
          /\ results' = r.docs
          /\ kept' = r.centers
          /\ per_doc_counts' = r.counts
    /\ pc' = "ports_done"
    /\ UNCHANGED <<hits, settings, limit, store, lookup, idx, processed, args, fout, ask,
                   meta, thr>>

NextPorts == GetRelevantDocuments

SpecPorts == InitPorts /\ [][NextPorts]_vars

\* the record the retriever can get for an id: from the metadata map or by the
\* point lookup
Stored(nid) == fetch_meta(nid, InitialLookup(store), store)

\* the centre chunk of the i-th document and its document
CenterOf(i) == HitChunkId(hits[kept[i]])

CenterDocOf(i) ==
    DocOf(IF Stored(CenterOf(i)).found THEN Stored(CenterOf(i)).rec
          ELSE hits[kept[i]].metadata, CenterOf(i))

\* the ids within +-r of the centre that exist in the store as chunks of the
\* centre's document
WindowChunks(i) ==
    LET c == CenterOf(i)
        r == PortsConfig(args).neighbors
    IN {nid \in DOMAIN store.map :
          /\ Stored(nid).found
          /\ DocOf(Stored(nid).rec, nid) = CenterDocOf(i)
          /\ \/ nid = c
             \/ /\ nid.base = c.base /\ nid.marker /\ c.marker
                /\ IsInt(nid.tail) /\ IsInt(c.tail)
                /\ ParseInt(nid.tail) >= ParseInt(c.tail) - r
                /\ ParseInt(nid.tail) <= ParseInt(c.tail) + r}

\* the index of a stored chunk: its chunk_index, else the number in its id
IndexOf(nid) ==
    IF Stored(nid).rec.chunk_index.some THEN Stored(nid).rec.chunk_index.v
    ELSE ParseInt(nid.tail)

TextOfChunk(nid) ==
    IF Stored(nid).rec.text # <<>> THEN Stored(nid).rec.text ELSE Stored(nid).rec.preview

----------------------------------------------------------------------------
(* The limit of prepare_hits, over Spec *)

\* the hits that survive the filters and the per-doc cap when no limit is given
Survivors == prepare_hits(hits, store, settings, NoLimit)

\* C25: with a limit given, prepare_hits returns at most limit hits, exactly
\* limit when that many raw hits survive the filters and the per-doc cap, and
\* the loop processes no hit after the limit-th survivor.
C25_LimitCap ==
    (limit.some /\ pc \in {"loop", "done"}) =>
        /\ Len(processed) <= limit.v
        /\ (pc = "done" /\ Len(Survivors) >= limit.v) =>
              /\ Len(processed) = limit.v
              /\ limit.v > 0 => idx = kept[limit.v] + 1

----------------------------------------------------------------------------
(* The store signature fallback, over SpecAsk *)

QueryEvents == SelectSeq(ask.log, LAMBDA e : e.call = "query")

\* C26: when the first store.query raises TypeError, ask retries once with
\* only (vector, k) and goes on with that result; store.query is called at
\* most twice per request, both times with k = max(5 * k, 50), and a failure
\* of the retry leaves ask.
C26_SignatureFallback ==
    ask.path = "ask" =>
        /\ Len(QueryEvents) <= 2
        /\ \A i \in 1..Len(QueryEvents) :
              QueryEvents[i].kwargs.k = Max(5 * ask.k, 50)
        /\ pc = "RETRY" => Len(QueryEvents) = 1
        /\ Len(QueryEvents) = 2 =>
              /\ QueryEvents[2].kwargs.mode = ""
              /\ ~QueryEvents[2].kwargs.has_filters
              /\ "store" \in ask.raised => (pc = "FAILED" /\ ~ask.returned)
              /\ "store" \notin ask.raised =>
                    /\ pc \notin {"RETRY", "EMBEDDED"}
                    /\ pc = "FAILED" => "llm" \in ask.raised
                    /\ pc = "RETRIEVED" => hits = ask.store_hits

\* a request answered after the store refused the mode and filters arguments
C26_Witness ==
    /\ pc = "ANSWERED"
    /\ Len(QueryEvents) = 2
    /\ QueryEvents[1].kwargs.mode = "hybrid"
    /\ QueryEvents[1].kwargs.has_filters
    /\ ask.k = 11
    /\ ask.response.sources # <<>>

----------------------------------------------------------------------------
(* The optional rerank stage, over SpecAsk *)

RerankEvents == SelectSeq(ask.log, LAMBDA e : e.call = "rerank")

\* the rerank flag is true or unspecified
RerankWanted == ask.rerank \in {"true", "none"}

\* C27: in a request with a non-blank question reranker.rerank is invoked
\* exactly once, after the store query and before hit preparation, when the
\* flag is true or None, and never when it is false; the router's statistic
\* route passes rerank = false.
C27_OptionalRerank ==
    (ask.path = "ask" /\ ~BlankQuestion) =>
        /\ Len(RerankEvents) <= 1
        /\ ~RerankWanted => RerankEvents = <<>>
        /\ (RerankWanted /\ pc \in {"RERANKED", "PREPARED", "NO_HITS", "ANSWERED",
                                    "ENTRIES"})
              => Len(RerankEvents) = 1
        /\ pc \in {"CALLED", "TRIMMED", "EMBEDDED", "RETRY", "RETRIEVED"}
              => RerankEvents = <<>>
        /\ pc \in {"CALLED", "TRIMMED", "EMBEDDED", "RETRY", "RETRIEVED", "RERANKED"}
              => processed = <<>>
        /\ \A i \in 1..Len(ask.log) :
              ask.log[i].call = "rerank" =>
                 /\ \E j \in 1..(i - 1) : ask.log[j].call = "query"
                 /\ \A j \in (i + 1)..Len(ask.log) : ask.log[j].call = "chat"
        /\ ask.route = "statistic" => ask.rerank = "false"

\* a request with the flag unspecified, answered after one rerank
C27_Witness ==
    /\ pc = "ANSWERED"
    /\ ask.rerank = "none"
    /\ Len(RerankEvents) = 1
    /\ Len(processed) = 2

----------------------------------------------------------------------------
(* SpecCalls: prepare_hits called again and again, with any settings, on    *)
(* the same store and the same raw hit objects                              *)

c10 == ChunkId("d1", 0)

\* a chunk as long as the smallest preview budget
LongText == [i \in 1..MinPreviewChars |-> "a"]

CallChunks ==
    (c10 :> MkRec(c10, "d1", LongText, NoYear))
    @@ (c11 :> MkRec(c11, "d1", <<"b">>, IntYear(2020)))
    @@ (c12 :> MkRec(c12, "d1", <<"b", "\n", "a">>, NoYear))
    @@ (c21 :> MkRec(c21, "d2", <<"A", "b">>, StrYear(Y2021)))

\* raw hits: unscored, with a score that is not a number, and with an id the
\* chunks file lacks whose metadata (naming a document of the file) came with
\* the hit
CallHitPool ==
    { MkHit(c11, NoScore, EmptyRec),
      MkHit(c21, BadScore, EmptyRec),
      MkHit(c31, NumScore(4), MkRec(c31, "d1", <<"a">>, StrYear(Y2021))) }

CallHitSeqs ==
    UNION {{h \in [1..n -> CallHitPool] : \A i, j \in 1..n : i # j => h[i] # h[j]}
           : n \in 0..MaxHits}

CallStores ==
    {[map |-> CallChunks, bulk |-> TRUE, point |-> TRUE],
     [map |-> CallChunks, bulk |-> FALSE, point |-> TRUE],
     [map |-> CallChunks, bulk |-> FALSE, point |-> FALSE]}

CallSettings ==
    [contains : {<<>>},
     year_min : {NoBound},
     year_max : {NoBound},
     neighbors : {0, 1},
     per_doc : {1, MaxPerDoc},
     max_preview_chars : {MinPreviewChars, DefaultPreviewChars},
     max_snippet_chars : {DefaultSnippetChars}]

CallLimits == {NoLimit, Bound(1)}

InitCalls ==
    /\ pc = "idle"
    /\ hits \in CallHitSeqs
    /\ store \in CallStores
    /\ settings = IdleSettings
    /\ limit = NoLimit
    /\ lookup = EmptyMap
    /\ idx = 1
    /\ per_doc_counts = [d \in {} |-> 0]
    /\ processed = <<>>
    /\ kept = <<>>
    /\ results = <<>>
    /\ args = [hits |-> hits, store |-> store]
    /\ fout = {}
    /\ ask = IdleAsk
    /\ meta = EmptyMap
    /\ thr = IdleThr

\* the dict the writes of lines 228-261 land in, given who owns base_meta
\* ("store": a record of the store's map, "hit": the hit's own metadata)
AliasOfMeta(owner) == owner

\* line 227: meta = dict(base_meta), a new dict
CopyOfMeta(owner) == "local"

\* line 208: per_doc_counts = defaultdict(int)
FreshCounts == [d \in {} |-> 0]

\* lines 199-210 of a call made when no call is under way; fout collects how
\* the earlier calls ended
CallStart ==
    /\ pc \in {"idle", "returned", "raised"}
    /\ \E stg \in CallSettings, lim \in CallLimits :
          /\ settings' = stg
          /\ limit' = lim
    /\ fout' = IF pc = "idle" THEN fout ELSE fout \cup {pc}
    /\ pc' = IF hits = <<>> THEN "returned" ELSE "loop"
    /\ lookup' = IF hits = <<>> THEN EmptyMap ELSE InitialLookup(store)
    /\ per_doc_counts' = FreshCounts
    /\ processed' = <<>>
    /\ kept' = <<>>
    /\ idx' = 1
    /\ UNCHANGED <<hits, store, results, args, ask, meta, thr>>

\* lines 226-267 on hits[at], given the metadata m resolved for it (lines
\* 226-241) and the loop state st one pass of the body leaves when float()
\* accepts the score: float(score) may raise, and the writes to meta reach
\* the store or the hit only if meta is not a copy
CallEffect(hs, at, sto, lkp, m, st, before) ==
    LET hit == hs[at]
        chunk_id == HitChunkId(hit)
        survives == Len(st.processed) > Len(before.processed)
        raises == survives /\ FloatRaises(hit.score)
        final == st.processed[Len(st.processed)].metadata
        written == IF raises THEN [final EXCEPT !.score = m.score]
                   ELSE IF survives THEN final
                   ELSE m
        owner == IF chunk_id = NoId THEN "none"
                 ELSE IF chunk_id \in DOMAIN lkp THEN "store"
                 ELSE "hit"
        target == CopyOfMeta(owner)
    IN [store |-> IF target = "store"
                  THEN [sto EXCEPT !.map = (chunk_id :> written) @@ sto.map]
                  ELSE sto,
        hits |-> IF target = "hit" THEN [hs EXCEPT ![at].metadata = written] ELSE hs,
        lookup |-> IF target = "store" THEN (chunk_id :> written) @@ st.lookup
                   ELSE st.lookup,
        counts |-> IF raises THEN before.counts ELSE st.counts,
        processed |-> IF raises THEN before.processed ELSE st.processed,
        kept |-> IF raises THEN before.kept ELSE st.kept,
        pc |-> IF raises THEN "raised"
               ELSE IF st.stop \/ at + 1 > Len(hs) THEN "returned"
               ELSE "loop"]

\* lines 212-269: the loop body on hits[idx]
CallStep ==
    /\ pc = "loop"
    /\ idx <= Len(hits)
    /\ \E before \in {[lookup |-> lookup, counts |-> per_doc_counts,
                        processed |-> processed, kept |-> kept, stop |-> FALSE]} :
       \E lkp \in {PointLookup(lookup, store, HitChunkId(hits[idx]))} :
       \E m \in {ResolveMeta(lkp, hits[idx])} :
       \E st \in {LoopBody(before, hits[idx], idx, store, settings, limit)} :
       \E eff \in {CallEffect(hits, idx, store, lkp, m, st, before)} :
          /\ store' = eff.store
          /\ hits' = eff.hits
          /\ lookup' = eff.lookup
          /\ per_doc_counts' = eff.counts
          /\ processed' = eff.processed
          /\ kept' = eff.kept
          /\ pc' = eff.pc
          /\ idx' = idx + 1
    /\ UNCHANGED <<settings, limit, results, args, fout, ask, meta, thr>>

NextCalls == CallStart \/ CallStep

SpecCalls == InitCalls /\ [][NextCalls]_vars

----------------------------------------------------------------------------
(* Score attachment, over SpecCalls *)

\* C28: every hit prepare_hits returns carries a float score both in
\* hit.score and in hit.metadata.score; a raw score that is missing or that
\* cannot be converted to float yields 0.0 and never makes prepare_hits fail.
C28_ScoreAttached ==
    /\ pc # "raised"
    /\ \A i \in 1..Len(processed) :
          /\ processed[i].metadata.score = NumScore(processed[i].score)
          /\ hits[kept[i]].score.k = "num" => processed[i].score = hits[kept[i]].score.v
          /\ hits[kept[i]].score.k \in {"none", "bad"} => processed[i].score = 0

----------------------------------------------------------------------------
(* Reentrancy of prepare_hits, over SpecCalls *)

\* C29: a call of prepare_hits mutates neither the store's metadata map, nor
\* a record in it, nor the raw hits, and starts its per-document counts at
\* zero; so after any earlier calls, with any settings, a call returns what
\* it would return as the first call.
C29_Reentrant ==
    /\ store = args.store
    /\ hits = args.hits
    /\ (pc = "loop" /\ idx = 1) => per_doc_counts = [d \in {} |-> 0]
    /\ pc = "returned" => processed = prepare_hits(args.hits, args.store, settings, limit)

\* a call that its limit stops before the hit whose score float() refuses,
\* made after a call that returned and a call that raised
C29_Witness ==
    /\ pc = "returned"
    /\ fout = {"returned", "raised"}
    /\ limit = Bound(1)
    /\ Len(hits) = 3
    /\ settings.neighbors = 1
    /\ Len(processed) = 1
    /\ processed[1].id = c11

----------------------------------------------------------------------------
(* The matched chunk in its own preview, over SpecCalls *)

\* the text of a record as stitch_preview reads it (line 107)
CleanedText(rec) == Strip(ReplaceNewlines(rec.text))

\* C30: for every hit prepare_hits returns whose own chunk record has
\* non-empty text, metadata.preview contains a non-empty prefix of that text,
\* for every neighbor radius and every max_preview_chars >= 100.
C30_CenterInPreview ==
    pc = "returned" =>
        \A i \in 1..Len(processed) :
            LET own == CleanedText(processed[i].metadata)
            IN (own # <<>> /\ settings.max_preview_chars >= MinPreviewChars) =>
                  \E n \in 1..Len(own) :
                      Contains(processed[i].metadata.preview, Take(own, n))

====
